---------------------------- MODULE Spec2Model ----------------------------
(***************************************************************************)
(* A state-machine model of MM_Configuration (gc/base/Configuration.cpp):  *)
(* the bootstrap, tuning and teardown of the memory-management subsystem.  *)
(*                                                                         *)
(* The shared MM_GCExtensionsBase record is the variable `extensions`.     *)
(* Every call of an MM_Configuration method is one action; the calls it    *)
(* makes on its collaborators are recorded, in order, in `log`.            *)
(***************************************************************************)
EXTENDS Integers, Sequences, FiniteSets, TLC

VARIABLES
    extensions,           \* MM_GCExtensionsBase: handles, tuning fields, flags
    defaultMemorySpace,   \* extensions->heap->getDefaultMemorySpace() (NULL or a handle)
    heapKills,            \* per constructed MM_Heap: how often kill() ran on it
    nextHeap,             \* number of MM_Heap objects constructed so far
    envKills,             \* per allocated MM_EnvironmentBase: how often kill() ran on it
    envs,                 \* per allocated MM_EnvironmentBase: its fields
    nextEnv,              \* number of MM_EnvironmentBase objects allocated so far
    omrVM,                \* OMR_VM fields written by the configuration
    numaCached,           \* extensions->_numaManager holds cached NUMA data
    delegateUp,           \* _delegate.initialize succeeded and tearDown has not run since
    parameters,           \* the MM_InitializationParameters last written
    op,                   \* the method of the last call
    afterTearDown,        \* the call before the last one was tearDown
    args,                 \* the inputs of the last call
    ret,                  \* what the last call returned
    log,                  \* the calls the last call made on its collaborators, in order
    aborted,              \* a fatal assertion ended the process
    build,                \* the compile-time feature flags of the build
    config                \* the MM_Configuration object's own fields

vars == << extensions, defaultMemorySpace, heapKills, nextHeap, envKills, envs,
           nextEnv, omrVM, numaCached, delegateUp, parameters, op, afterTearDown, args,
           ret, log, aborted, build, config >>

-----------------------------------------------------------------------------
(* Bounds of the model.                                                     *)

MaxHeaps == 2
MaxEnvs == 2

-----------------------------------------------------------------------------
(* Handles.  NULL is the absent handle; an object without modelled identity *)
(* is the handle Obj; an embedded member (never absent) is Embedded.        *)

NULL == 0
Obj == NULL + 1
Embedded == 0 - 1

BoolHandle(b) == IF b THEN Obj ELSE NULL

\* One call made on a collaborator: its name and the handle it was made on.
\* `ok` is what the call reported (TRUE for a call that reports nothing).
Event(name, handle) == [ev |-> name, h |-> handle, ok |-> TRUE]

\* A call on an embedded member or a method of the configuration, with its result.
Step(name, ok) == [ev |-> name, h |-> Embedded, ok |-> ok]

EventNames(s) == [i \in 1..Len(s) |-> s[i].ev]

RECURSIVE SelectNames(_, _)
SelectNames(s, keep) ==
    IF s = << >> THEN << >>
    ELSE IF Head(s) \in keep THEN << Head(s) >> \o SelectNames(Tail(s), keep)
    ELSE SelectNames(Tail(s), keep)

-----------------------------------------------------------------------------
(* MM_Configuration::tearDown and destroyCollectors.                        *)
(* A teardown step takes and returns the running state                      *)
(*   [ext, dms, kills, numa, dlg, log].                                     *)

TearDownState(ext, dms, kills, numa, dlg) ==
    [ext |-> ext, dms |-> dms, kills |-> kills, numa |-> numa, dlg |-> dlg,
     log |-> << >>]

\* if (NULL != extensions->heap) { kill the default memory space if any;
\*                                 heap->setDefaultMemorySpace(NULL) }
killDefaultMemorySpace(st) ==
    IF st.ext.heap # NULL
    THEN [st EXCEPT
            !.log = st.log
                \o (IF st.dms # NULL
                    THEN << Event("MM_MemorySpace::kill", st.dms) >>
                    ELSE << >>)
                \o << Event("MM_Heap::setDefaultMemorySpace", st.ext.heap) >>,
            !.dms = NULL]
    ELSE st

killReferenceChainWalkerMarkMap(st) ==
    IF st.ext.referenceChainWalkerMarkMap # NULL
    THEN [st EXCEPT
            !.log = st.log \o << Event("MM_ReferenceChainWalkerMarkMap::kill",
                                       st.ext.referenceChainWalkerMarkMap) >>,
            !.ext.referenceChainWalkerMarkMap = NULL]
    ELSE st

destroyCollectors(st) ==
    LET collector == st.ext.globalCollector
    IN  IF collector # NULL
        THEN [st EXCEPT
                !.log = st.log \o << Event("MM_Collector::kill", collector) >>,
                !.ext.globalCollector = NULL]
        ELSE st

\* killDispatcher without its presence check.
killDispatcherUnguarded(st) ==
    IF ~ st.ext.isMetronomeGC
    THEN [st EXCEPT
            !.log = st.log \o << Event("MM_ParallelDispatcher::kill",
                                       st.ext.dispatcher) >>,
            !.ext.dispatcher = NULL]
    ELSE st

\* In Metronome the dispatcher is created and destroyed by the collector.
killDispatcher(st) ==
    IF ~ st.ext.isMetronomeGC
    THEN IF st.ext.dispatcher # NULL
         THEN [st EXCEPT
                 !.log = st.log \o << Event("MM_ParallelDispatcher::kill",
                                            st.ext.dispatcher) >>,
                 !.ext.dispatcher = NULL]
         ELSE st
    ELSE st

killGlobalAllocationManager(st) ==
    IF st.ext.globalAllocationManager # NULL
    THEN [st EXCEPT
            !.log = st.log \o << Event("MM_GlobalAllocationManager::kill",
                                       st.ext.globalAllocationManager) >>,
            !.ext.globalAllocationManager = NULL]
    ELSE st

killHeap(st) ==
    IF st.ext.heap # NULL
    THEN [st EXCEPT
            !.log = st.log \o << Event("MM_Heap::kill", st.ext.heap) >>,
            !.kills[st.ext.heap] = @ + 1,
            !.ext.heap = NULL]
    ELSE st

killMemoryManager(st) ==
    IF st.ext.memoryManager # NULL
    THEN [st EXCEPT
            !.log = st.log \o << Event("MM_MemoryManager::kill",
                                       st.ext.memoryManager) >>,
            !.ext.memoryManager = NULL]
    ELSE st

killHeapRegionManager(st) ==
    IF st.ext.heapRegionManager # NULL
    THEN [st EXCEPT
            !.log = st.log \o << Event("MM_HeapRegionManager::kill",
                                       st.ext.heapRegionManager) >>,
            !.ext.heapRegionManager = NULL]
    ELSE st

\* killLockPool that leaves the killed pool's handle in the Extensions.
killLockPoolKeepHandle(st) ==
    IF st.ext._lightweightNonReentrantLockPool # NULL
    THEN [st EXCEPT
            !.log = st.log \o << Event("pool_kill",
                                       st.ext._lightweightNonReentrantLockPool) >> ]
    ELSE st

killLockPool(st) ==
    IF st.ext._lightweightNonReentrantLockPool # NULL
    THEN [st EXCEPT
            !.log = st.log \o << Event("pool_kill",
                                       st.ext._lightweightNonReentrantLockPool) >>,
            !.ext._lightweightNonReentrantLockPool = NULL]
    ELSE st

\* extensions->_numaManager.shutdownNUMASupport(env): unconditional
shutdownNUMASupport(st) ==
    [st EXCEPT
        !.log = st.log \o << Event("MM_NUMAManager::shutdownNUMASupport", Embedded) >>,
        !.numa = FALSE]

\* _delegate.tearDown(env): unconditional
delegateTearDown(st) ==
    [st EXCEPT
        !.log = st.log \o << Event("MM_ConfigurationDelegate::tearDown", Embedded) >>,
        !.dlg = FALSE]

\* tearDown with the heap killed after the managers that back it.
tearDownSequenceHeapLate ==
    << "defaultMemorySpace", "referenceChainWalkerMarkMap", "destroyCollectors",
       "dispatcher", "globalAllocationManager", "memoryManager",
       "heapRegionManager", "heap", "lockPool", "numa", "delegate" >>

\* The statements of tearDown, in program order.
tearDownSequence ==
    << "defaultMemorySpace", "referenceChainWalkerMarkMap", "destroyCollectors",
       "dispatcher", "globalAllocationManager", "heap", "memoryManager",
       "heapRegionManager", "lockPool", "numa", "delegate" >>

tearDownStep(name, st) ==
    CASE name = "defaultMemorySpace"          -> killDefaultMemorySpace(st)
      [] name = "referenceChainWalkerMarkMap" -> killReferenceChainWalkerMarkMap(st)
      [] name = "destroyCollectors"           -> destroyCollectors(st)
      [] name = "dispatcher"                  -> killDispatcher(st)
      [] name = "globalAllocationManager"     -> killGlobalAllocationManager(st)
      [] name = "heap"                        -> killHeap(st)
      [] name = "memoryManager"               -> killMemoryManager(st)
      [] name = "heapRegionManager"           -> killHeapRegionManager(st)
      [] name = "lockPool"                    -> killLockPool(st)
      [] name = "numa"                        -> shutdownNUMASupport(st)
      [] name = "delegate"                    -> delegateTearDown(st)

RECURSIVE runTearDown(_, _)
runTearDown(steps, st) ==
    IF steps = << >> THEN st
    ELSE runTearDown(Tail(steps), tearDownStep(Head(steps), st))

tearDown ==
    /\ ~ aborted
    /\ LET st == runTearDown(tearDownSequence,
                     TearDownState(extensions, defaultMemorySpace, heapKills,
                                   numaCached, delegateUp))
       IN  /\ extensions' = st.ext
           /\ defaultMemorySpace' = st.dms
           /\ heapKills' = st.kills
           /\ numaCached' = st.numa
           /\ delegateUp' = st.dlg
           /\ log' = st.log
    /\ op' = "tearDown"
    /\ afterTearDown' = (op = "tearDown")
    /\ args' = << >>
    /\ ret' = NULL
    /\ UNCHANGED << nextHeap, envKills, envs, nextEnv, omrVM, parameters, aborted,
                    build, config >>

-----------------------------------------------------------------------------
(* Heap geometry: MM_Configuration::initializeRegionSize and                *)
(* initializeArrayletLeafSize.  Sizes are in units of the smallest region.  *)

\* The widest shift calculatePowerOfTwoShift can return, and the narrowest.
MaxShift == 3
MinShift == 1

UDATA_MAX == 2 ^ (MaxShift + 1) - 1

\* The shift of the smallest power of two, not below the floor 2^MinShift, that
\* holds `value`; 0 (no valid shift) when no power of two up to 2^MaxShift does.
calculatePowerOfTwoShift(value) ==
    LET fits == { s \in MinShift..MaxShift : value <= 2 ^ s }
    IN  IF fits = {} THEN 0
        ELSE CHOOSE s \in fits : \A t \in fits : s <= t

\* A faulty variant: the viability check's answer is dropped.
initializeRegionSizeUnverified(ext, cfg, verifyOK) ==
    LET regionSize == IF ext.regionSize = 0 THEN cfg._defaultRegionSize
                      ELSE ext.regionSize
        shift == calculatePowerOfTwoShift(regionSize)
    IN  IF shift = 0
        THEN [result |-> FALSE, regionSize |-> ext.regionSize]
        ELSE [result |-> TRUE, regionSize |-> 2 ^ shift]

\* Returns [result, regionSize]; verifyOK is what verifyRegionSize answers.
initializeRegionSize(ext, cfg, verifyOK) ==
    LET regionSize == IF ext.regionSize = 0 THEN cfg._defaultRegionSize
                      ELSE ext.regionSize
        shift == calculatePowerOfTwoShift(regionSize)
    IN  IF shift = 0
        THEN [result |-> FALSE, regionSize |-> ext.regionSize]
        ELSE [result |-> verifyOK, regionSize |-> 2 ^ shift]

\* Returns [result, vm]: the OMR_VM with its arraylet leaf fields set.
initializeArrayletLeafSize(vm, cfg, regionSize) ==
    IF cfg._defaultArrayletLeafSize # UDATA_MAX
    THEN LET arrayletLeafSize == IF cfg._defaultArrayletLeafSize # 0
                                 THEN cfg._defaultArrayletLeafSize
                                 ELSE regionSize
             shift == calculatePowerOfTwoShift(arrayletLeafSize)
         IN  IF shift # 0
             THEN [result |-> TRUE,
                   vm |-> [vm EXCEPT !._arrayletLeafSize = 2 ^ shift,
                                     !._arrayletLeafLogSize = shift]]
             ELSE [result |-> FALSE, vm |-> vm]
    ELSE [result |-> TRUE,
          vm |-> [vm EXCEPT !._arrayletLeafSize = cfg._defaultArrayletLeafSize,
                            !._arrayletLeafLogSize = 0]]

-----------------------------------------------------------------------------
(* GC parameter tuning: defaultGCThreadCount, initializeGCThreadCount,      *)
(* initializeGCParameters.                                                  *)

OMR_MAX(a, b) == IF a > b THEN a ELSE b
OMR_MIN(a, b) == IF a < b THEN a ELSE b

\* A faulty variant: the delegate's cap is applied one thread too low.
defaultGCThreadCountBelowCap(cpus, maxGC) ==
    IF maxGC < cpus THEN maxGC - 1 ELSE cpus

\* A faulty variant: the CPU count is taken without the delegate's cap.
defaultGCThreadCountUncapped(cpus, maxGC) == cpus

\* cpus: omrsysinfo_get_number_CPUs_by_type(OMRPORT_CPU_TARGET);
\* maxGC: _delegate.getMaxGCThreadCount(env).
defaultGCThreadCount(cpus, maxGC) ==
    IF maxGC < cpus THEN maxGC ELSE cpus

\* The delegate's checkpoint hook: it is called, and adjusts nothing.
checkPointGCThreadCountVerifyAndAdjust(ext) == ext

\* A faulty variant: the thread count is queried although it is specified.
initializeGCThreadCountAlwaysQueries(ext, bld, cpus, maxGC) ==
    [ext |-> ext,
     log |-> << Step("omrsysinfo_get_number_CPUs_by_type", TRUE),
                Step("MM_ConfigurationDelegate::getMaxGCThreadCount", TRUE) >>]

\* Returns [ext, log].
initializeGCThreadCount(ext, bld, cpus, maxGC) ==
    LET e1 == IF ~ ext.gcThreadCountSpecified
              THEN [ext EXCEPT !.gcThreadCount = defaultGCThreadCount(cpus, maxGC)]
              ELSE ext
        l1 == IF ~ ext.gcThreadCountSpecified
              THEN << Step("omrsysinfo_get_number_CPUs_by_type", TRUE),
                      Step("MM_ConfigurationDelegate::getMaxGCThreadCount", TRUE) >>
              ELSE << >>
    IN  IF bld.J9VM_OPT_CRIU_SUPPORT
        THEN [ext |-> checkPointGCThreadCountVerifyAndAdjust(e1),
              log |-> l1 \o << Step("MM_ConfigurationDelegate::checkPointGCThreadCountVerifyAndAdjust", TRUE) >>]
        ELSE [ext |-> e1, log |-> l1]

\* uintptr_t arithmetic on counts wraps at UDATA_COUNT_RANGE.
UDATA_COUNT_RANGE == 2 ^ 16

\* A faulty variant: the thread count is divided without taking one off.
splitAmountForWholeCount(threadCount) ==
    (threadCount % UDATA_COUNT_RANGE) \div 8 + 1

splitAmountFor(threadCount) == ((threadCount - 1) % UDATA_COUNT_RANGE) \div 8 + 1

\* A faulty variant: the newly derived amount replaces the prior one.
splitReplaced(prior, amount) == amount

\* OMR_MAX(<the split factor>, <the amount derived>): the factor is not decreased.
splitRaised(prior, amount) == OMR_MAX(prior, amount)

\* A faulty variant: the free-list amount always follows the CPU count.
freeListSplitAmountFromCPUs(scavengerActive, splitAmount, cpus) ==
    splitAmountFor(cpus)

\* freeListSplitAmount: (CPUs - 1) / 8 + 1, replaced by splitAmount when
\* OMR_GC_MODRON_SCAVENGER is defined and extensions->scavengerEnabled.
freeListSplitAmountFor(scavengerActive, splitAmount, cpus) ==
    IF scavengerActive THEN splitAmount ELSE splitAmountFor(cpus)

\* The body of initializeGCParameters after its assertion.
tuneGCParameters(ext, bld, cpus) ==
    LET splitAmount == splitAmountFor(ext.gcThreadCount)
        e1 == IF ~ ext.packetListSplitForced
              THEN [ext EXCEPT !.packetListSplit = splitRaised(@, splitAmount)]
              ELSE ext
        e2 == IF bld.OMR_GC_MODRON_SCAVENGER /\ ~ e1.cacheListSplitForced
              THEN [e1 EXCEPT !.cacheListSplit = splitRaised(@, splitAmount)]
              ELSE e1
        e3 == IF bld.OMR_GC_MODRON_SCAVENGER /\ e2.scavengerEnabled
              THEN IF e2.scavengerScanOrdering = "NONE"
                   THEN [e2 EXCEPT !.scavengerScanOrdering = "HIERARCHICAL"]
                   ELSE IF e2.scavengerScanOrdering = "DYNAMIC_BREADTH_FIRST"
                        THEN [e2 EXCEPT !.adaptiveGcCountBetweenHotFieldSort = TRUE]
                        ELSE e2
              ELSE e2
        freeListSplitAmount ==
            freeListSplitAmountFor(bld.OMR_GC_MODRON_SCAVENGER /\ e3.scavengerEnabled,
                                   splitAmount, cpus)
    IN  IF ~ e3.splitFreeListAmountForced
        THEN [e3 EXCEPT !.splitFreeListSplitAmount = splitRaised(@, freeListSplitAmount)]
        ELSE e3

\* Returns [ext, asserted]: when Assert_MM_true(0 < gcThreadCount) fails, a build
\* with fatal assertions ends the process before anything is tuned.
initializeGCParameters(ext, bld, cpus) ==
    IF 0 < ext.gcThreadCount \/ ~ bld.fatalAssertions
    THEN [ext |-> tuneGCParameters(ext, bld, cpus), asserted |-> FALSE]
    ELSE [ext |-> ext, asserted |-> TRUE]

-----------------------------------------------------------------------------
(* MM_Configuration::initialize.                                            *)
(* `in` holds what the collaborators answer during the call:                *)
(*   verifyRegionSize, delegateInitialize, recacheNUMASupport, pool_new     *)
(*   (each TRUE for success), cpus and maxGC.                               *)
(* Returns [result, ext, vm, numa, dlg, log, asserted].                     *)

\* initialize reporting success without looking at the lock pool.
lockPoolResultUnchecked(ext) == TRUE

\* result = (NULL != extensions->_lightweightNonReentrantLockPool)
lockPoolResult(ext) == ext._lightweightNonReentrantLockPool # NULL

runInitialize(ext, vm, numa, dlg, bld, cfg, in) ==
    LET rs  == initializeRegionSize(ext, cfg, in.verifyRegionSize)
        e1  == [ext EXCEPT !.regionSize = rs.regionSize]
        l1  == << Step("initializeRegionSize", rs.result) >>
        al  == initializeArrayletLeafSize(vm, cfg, e1.regionSize)
        l2  == l1 \o << Step("initializeArrayletLeafSize", al.result) >>
        l3  == l2 \o << Step("MM_ConfigurationDelegate::initialize", in.delegateInitialize) >>
        \* excessivegc is enabled by default
        e3  == IF ~ e1.excessiveGCEnabled._wasSpecified
               THEN [e1 EXCEPT !.excessiveGCEnabled._valueSpecified = TRUE]
               ELSE e1
        l4  == l3 \o << Step("initializeNUMAManager", in.recacheNUMASupport) >>
        tc  == initializeGCThreadCount(e3, bld, in.cpus, in.maxGC)
        l5  == l4 \o << Step("initializeGCThreadCount", TRUE) >> \o tc.log
        gp  == initializeGCParameters(tc.ext, bld, in.cpus)
        l6  == l5 \o << Step("initializeGCParameters", 0 < tc.ext.gcThreadCount) >>
        e7  == [gp.ext EXCEPT !._lightweightNonReentrantLockPool = BoolHandle(in.pool_new)]
        l7  == l6 \o << [ev |-> "pool_new", h |-> BoolHandle(in.pool_new), ok |-> in.pool_new] >>
        fail(e, v, n, d, l) ==
            [result |-> FALSE, ext |-> e, vm |-> v, numa |-> n, dlg |-> d, log |-> l,
             asserted |-> FALSE]
    IN  IF ~ rs.result THEN fail(e1, vm, numa, dlg, l1)
        ELSE IF ~ al.result THEN fail(e1, al.vm, numa, dlg, l2)
        ELSE IF ~ in.delegateInitialize THEN fail(e1, al.vm, numa, dlg, l3)
        ELSE IF ~ in.recacheNUMASupport THEN fail(e3, al.vm, numa, TRUE, l4)
        ELSE IF gp.asserted
             THEN [result |-> FALSE, ext |-> tc.ext, vm |-> al.vm, numa |-> TRUE,
                   dlg |-> TRUE, log |-> l6, asserted |-> TRUE]
        ELSE [result |-> lockPoolResult(e7),
              ext |-> e7, vm |-> al.vm, numa |-> TRUE, dlg |-> TRUE, log |-> l7,
              asserted |-> FALSE]

initialize(in) ==
    /\ ~ aborted
    /\ LET r == runInitialize(extensions, omrVM, numaCached, delegateUp, build,
                              config, in)
       IN  /\ extensions' = r.ext
           /\ omrVM' = r.vm
           /\ numaCached' = r.numa
           /\ delegateUp' = r.dlg
           /\ log' = r.log
           /\ ret' = r.result
           /\ aborted' = r.asserted
    /\ op' = "initialize"
    /\ afterTearDown' = (op = "tearDown")
    /\ args' = in
    /\ UNCHANGED << defaultMemorySpace, heapKills, nextHeap, envKills, envs, nextEnv,
                    parameters, build, config >>

-----------------------------------------------------------------------------
(* MM_Configuration::initializeRunTimeObjectAlignmentAndCRShift.            *)
(* Addresses are in units of 2^30 bytes, so 2^32 is maxAddressValue = 4.    *)

maxAddressValue == 4
LOW_MEMORY_HEAP_CEILING_SHIFT == 4
DEFAULT_LOW_MEMORY_HEAP_CEILING_SHIFT == 3

\* The while loop that clamps the shift: returns the final underShift.
\* A shift by a negative count is undefined: `undefShl` is what the comparison
\* heapTop <= (maxAddressValue << underShift) then yields in this build.
RECURSIVE clampUnderShift(_, _, _)
clampUnderShift(heapTop, underShift, undefShl) ==
    LET fitsUnder == IF underShift < 0 THEN undefShl
                     ELSE heapTop <= maxAddressValue * 2 ^ underShift
    IN  IF fitsUnder /\ underShift >= 0
        THEN clampUnderShift(heapTop, underShift - 1, undefShl)
        ELSE underShift

\* A faulty variant: the clamp stops one shift above the smallest that fits.
clampedShiftOneAbove(heapTop, shift, canChangeShift, undefShl) ==
    IF canChangeShift
    THEN OMR_MIN(shift, clampUnderShift(heapTop, shift - 1, undefShl) + 2)
    ELSE shift

\* The shift after the clamp, given that heapTop fits under `shift`.
clampedShift(heapTop, shift, canChangeShift, undefShl) ==
    IF canChangeShift
    THEN clampUnderShift(heapTop, shift - 1, undefShl) + 1
    ELSE shift

\* #if !defined(S390) && !defined(J9ZOS390): force a non-zero shift up to the default
platformShift(bld, shift, canChangeShift) ==
    IF ~ bld.S390 /\ canChangeShift /\ shift # 0
       /\ shift < DEFAULT_LOW_MEMORY_HEAP_CEILING_SHIFT
    THEN DEFAULT_LOW_MEMORY_HEAP_CEILING_SHIFT
    ELSE shift

\* A faulty variant: the force-low policy raises a forced shift too.
lowCeilingShiftForcedToo(o, shift, canChangeShift) ==
    IF o.shouldForceLowMemoryHeapCeilingShiftIfPossible
       /\ shift < DEFAULT_LOW_MEMORY_HEAP_CEILING_SHIFT
    THEN DEFAULT_LOW_MEMORY_HEAP_CEILING_SHIFT
    ELSE shift

lowCeilingShift(o, shift, canChangeShift) ==
    IF o.shouldForceLowMemoryHeapCeilingShiftIfPossible
       /\ canChangeShift /\ shift < DEFAULT_LOW_MEMORY_HEAP_CEILING_SHIFT
    THEN DEFAULT_LOW_MEMORY_HEAP_CEILING_SHIFT
    ELSE shift

\* `o` holds the options read (compressObjectReferences and the Extensions'
\* shifting fields) and undefShl.  Returns [result, vm, asserted, log]:
\* Assert_MM_unreachable ends the process in a build with fatal assertions and
\* falls through to `return false` otherwise.
initializeRunTimeObjectAlignmentAndCRShift(vm, bld, o, heapTop) ==
    LET start == IF o.shouldAllowShiftingCompression
                 THEN LOW_MEMORY_HEAP_CEILING_SHIFT ELSE 0
        shift0 == IF o.shouldForceSpecifiedShiftingCompression
                  THEN o.forcedShiftingCompressionAmount ELSE start
        canChangeShift == ~ o.shouldForceSpecifiedShiftingCompression
        shift1 == clampedShift(heapTop, shift0, canChangeShift, o.undefShl)
        shift2 == platformShift(bld, shift1, canChangeShift)
        shift3 == lowCeilingShift(o, shift2, canChangeShift)
        aligned == << Step("GC_ObjectModel::setObjectAlignment", TRUE) >>
    IN  IF bld.OMR_GC_COMPRESSED_POINTERS /\ o.compressObjectReferences
        THEN IF heapTop <= maxAddressValue * 2 ^ shift0
             THEN [result |-> TRUE,
                   vm |-> [vm EXCEPT !._compressedPointersShift = shift3],
                   asserted |-> FALSE, log |-> aligned]
             ELSE [result |-> FALSE, vm |-> vm,
                   asserted |-> bld.fatalAssertions,
                   log |-> << Step("Assert_MM_unreachable", FALSE) >>]
        ELSE [result |-> TRUE, vm |-> vm, asserted |-> FALSE, log |-> aligned]

-----------------------------------------------------------------------------
(* MM_Configuration::createHeap.                                            *)
(* `in` holds what the collaborators answer (newMemoryManager,              *)
(* createHeapRegionManager, createHeapWithManager, initializeHeapRegionManager, *)
(* heapInitialized: TRUE for success), the heap's heapBase and heapTop, the *)
(* fvtest window and the options of the shift computation.                  *)
(* Returns [ret, ext, dms, kills, next, vm, log, asserted].                 *)

\* The window check without its upper bound.
outsideVerifyWindowAboveOnly(in) ==
    in.heapBase < in.fvtest_verifyHeapAbove

\* The fvtest address window rejects the heap.
outsideVerifyWindow(in) ==
    \/ in.heapBase < in.fvtest_verifyHeapAbove
    \/ (in.fvtest_verifyHeapBelow # NULL /\ in.heapTop > in.fvtest_verifyHeapBelow)

runCreateHeap(ext, dms, kills, next, vm, bld, in) ==
    LET needMM == ext.memoryManager = NULL
        e1 == IF needMM
              THEN [ext EXCEPT !.memoryManager = BoolHandle(in.newMemoryManager)]
              ELSE ext
        l1 == IF needMM
              THEN << [ev |-> "MM_MemoryManager::newInstance",
                       h |-> e1.memoryManager, ok |-> in.newMemoryManager] >>
              ELSE << >>
        needRM == e1.heapRegionManager = NULL
        e2 == IF needRM
              THEN [e1 EXCEPT !.heapRegionManager = BoolHandle(in.createHeapRegionManager)]
              ELSE e1
        l2 == l1 \o (IF needRM
                     THEN << [ev |-> "createHeapRegionManager",
                              h |-> e2.heapRegionManager,
                              ok |-> in.createHeapRegionManager] >>
                     ELSE << >>)
        heap == IF in.createHeapWithManager THEN next + 1 ELSE NULL
        n3 == IF in.createHeapWithManager THEN next + 1 ELSE next
        l3 == l2 \o << [ev |-> "createHeapWithManager", h |-> heap,
                        ok |-> in.createHeapWithManager] >>
        l4 == l3 \o << [ev |-> "MM_Heap::initializeHeapRegionManager", h |-> heap,
                        ok |-> in.initializeHeapRegionManager] >>
        cr == initializeRunTimeObjectAlignmentAndCRShift(vm, bld, in, in.heapTop)
        l5 == l4 \o << Step("initializeRunTimeObjectAlignmentAndCRShift", cr.result) >>
                 \o cr.log
        e6 == [e2 EXCEPT !.heap = heap]
        l6 == l5 \o << Step("MM_ConfigurationDelegate::heapInitialized",
                            in.heapInitialized) >>
        killed == [kills EXCEPT ![heap] = @ + 1]
        kill == << Event("MM_Heap::kill", heap) >>
        out(r, e, d, k, n, v, l, a) ==
            [ret |-> r, ext |-> e, dms |-> d, kills |-> k, next |-> n, vm |-> v,
             log |-> l, asserted |-> a]
    IN  IF e1.memoryManager = NULL
        THEN out(NULL, e1, dms, kills, next, vm, l1, FALSE)
        ELSE IF e2.heapRegionManager = NULL
        THEN out(NULL, e2, dms, kills, next, vm, l2, FALSE)
        ELSE IF heap = NULL
        THEN out(NULL, e2, dms, kills, n3, vm, l3, FALSE)
        ELSE IF ~ in.initializeHeapRegionManager
        THEN out(NULL, e2, dms, killed, n3, vm, l4 \o kill, FALSE)
        ELSE IF cr.asserted
        THEN out(NULL, e2, dms, kills, n3, vm, l5, TRUE)
        ELSE IF ~ cr.result
        THEN out(NULL, e2, dms, killed, n3, vm, l5 \o kill, FALSE)
        ELSE IF ~ in.heapInitialized
        THEN out(NULL, [e6 EXCEPT !.heap = NULL], NULL, killed, n3, cr.vm,
                 l6 \o kill, FALSE)
        ELSE IF outsideVerifyWindow(in)
        THEN out(NULL, [e6 EXCEPT !.heap = NULL], NULL, killed, n3, cr.vm,
                 l6 \o kill, FALSE)
        ELSE out(heap, e6, NULL, kills, n3, cr.vm, l6, FALSE)

createHeap(in) ==
    /\ ~ aborted
    /\ nextHeap < MaxHeaps
    /\ LET r == runCreateHeap(extensions, defaultMemorySpace, heapKills, nextHeap,
                              omrVM, build, in)
       IN  /\ extensions' = r.ext
           /\ defaultMemorySpace' = r.dms
           /\ heapKills' = r.kills
           /\ nextHeap' = r.next
           /\ omrVM' = r.vm
           /\ log' = r.log
           /\ ret' = r.ret
           /\ aborted' = r.asserted
    /\ op' = "createHeap"
    /\ afterTearDown' = (op = "tearDown")
    /\ args' = in
    /\ UNCHANGED << envKills, envs, nextEnv, numaCached, delegateUp, parameters,
                    build, config >>

-----------------------------------------------------------------------------
(* MM_Configuration::createEnvironment and initializeEnvironment.           *)
(* `in`: allocateNewEnvironment, newAllocationInterface and                 *)
(* environmentInitialized, each TRUE for success.                           *)

NoEnvironment ==
    [_objectAllocationInterface |-> NULL, variant |-> "none",
     environmentInitialized |-> FALSE]

\* The case of the switch on _allocationType that this build compiles in.
allocationCase(bld, cfg) ==
    IF cfg._allocationType = "gc_modron_allocation_type_tlh"
       /\ bld.OMR_GC_THREAD_LOCAL_HEAP
    THEN "MM_TLHAllocationInterface"
    ELSE IF cfg._allocationType = "gc_modron_allocation_type_segregated"
            /\ bld.OMR_GC_SEGREGATED_HEAP
    THEN "MM_SegregatedAllocationInterface"
    ELSE "default"

\* initializeEnvironment succeeding as soon as the interface exists.
environmentReadyWithoutHook(env, hookOK) ==
    env._objectAllocationInterface # NULL

\* if (NULL != env->_objectAllocationInterface) {
\*     if (_delegate.environmentInitialized(env)) { result = true; } }
environmentReady(env, hookOK) ==
    env._objectAllocationInterface # NULL /\ hookOK

\* Returns [result, env, log, asserted] for the freshly allocated `env`.
initializeEnvironment(env, bld, cfg, in) ==
    LET case == allocationCase(bld, cfg)
        e1 == IF case # "default"
              THEN [env EXCEPT
                      !._objectAllocationInterface = BoolHandle(in.newAllocationInterface),
                      !.variant = IF in.newAllocationInterface THEN case ELSE "none"]
              ELSE env
        l1 == IF case # "default"
              THEN << [ev |-> case \o "::newInstance",
                       h |-> e1._objectAllocationInterface,
                       ok |-> in.newAllocationInterface] >>
              ELSE << Step("Assert_MM_unreachable", FALSE) >>
        l2 == l1 \o << Step("MM_ConfigurationDelegate::environmentInitialized",
                            in.environmentInitialized) >>
    IN  IF case = "default" /\ bld.fatalAssertions
        THEN [result |-> FALSE, env |-> e1, log |-> l1, asserted |-> TRUE]
        ELSE IF e1._objectAllocationInterface # NULL
        THEN [result |-> environmentReady(e1, in.environmentInitialized),
              env |-> [e1 EXCEPT !.environmentInitialized = in.environmentInitialized],
              log |-> l2, asserted |-> FALSE]
        ELSE [result |-> FALSE, env |-> e1, log |-> l1, asserted |-> FALSE]

\* Returns [ret, envs, kills, next, log, asserted].
runCreateEnvironment(es, kills, next, bld, cfg, in) ==
    LET env == IF in.allocateNewEnvironment THEN next + 1 ELSE NULL
        l0 == << [ev |-> "allocateNewEnvironment", h |-> env,
                  ok |-> in.allocateNewEnvironment] >>
        ie == initializeEnvironment(NoEnvironment, bld, cfg, in)
        l1 == l0 \o << Step("initializeEnvironment", ie.result) >> \o ie.log
    IN  IF env = NULL
        THEN [ret |-> NULL, envs |-> es, kills |-> kills, next |-> next,
              log |-> l0, asserted |-> FALSE]
        ELSE IF ie.asserted
        THEN [ret |-> NULL, envs |-> [es EXCEPT ![env] = ie.env], kills |-> kills,
              next |-> next + 1, log |-> l1, asserted |-> TRUE]
        ELSE IF ~ ie.result
        THEN [ret |-> NULL, envs |-> [es EXCEPT ![env] = ie.env],
              kills |-> [kills EXCEPT ![env] = @ + 1], next |-> next + 1,
              log |-> l1 \o << Event("MM_EnvironmentBase::kill", env) >>,
              asserted |-> FALSE]
        ELSE [ret |-> env, envs |-> [es EXCEPT ![env] = ie.env], kills |-> kills,
              next |-> next + 1, log |-> l1, asserted |-> FALSE]

createEnvironment(in) ==
    /\ ~ aborted
    /\ nextEnv < MaxEnvs
    /\ LET r == runCreateEnvironment(envs, envKills, nextEnv, build, config, in)
       IN  /\ envs' = r.envs
           /\ envKills' = r.kills
           /\ nextEnv' = r.next
           /\ log' = r.log
           /\ ret' = r.ret
           /\ aborted' = r.asserted
    /\ op' = "createEnvironment"
    /\ afterTearDown' = (op = "tearDown")
    /\ args' = in
    /\ UNCHANGED << extensions, defaultMemorySpace, heapKills, nextHeap, omrVM,
                    numaCached, delegateUp, parameters, build, config >>

-----------------------------------------------------------------------------
(* MM_Configuration::prepareParameters and getAlignment.                    *)

\* uintptr_t arithmetic on sizes wraps at UDATA_MAX + 1.
UDATA(x) == x % (UDATA_MAX + 1)

roundToFloor(granularity, number) == number - (number % granularity)

roundToCeiling(granularity, number) ==
    IF number % granularity # 0
    THEN UDATA(number + (granularity - (number % granularity)))
    ELSE number

getAlignment(ext, type) ==
    IF type = "mm_heapAlignment" THEN ext.heapAlignment
    ELSE IF type = "mm_regionAlignment" THEN ext.regionSize
    ELSE 0

\* A faulty variant: the old space is clamped to the whole heap, not to what the new
\* space leaves.
oldSpaceAlone(maximumHeapSize, newSpaceSize, tenureSpaceSize) ==
    OMR_MIN(maximumHeapSize, tenureSpaceSize)

\* OMR_MIN(maximumHeapSize - <new space size written>, <tenure space size>)
oldSpaceBeside(maximumHeapSize, newSpaceSize, tenureSpaceSize) ==
    OMR_MIN(maximumHeapSize - newSpaceSize, tenureSpaceSize)

\* A faulty variant: new-space sizes are rounded to the alignment itself.
newSpaceGranularitySingle(alignment) == alignment

\* alignment * 2: the granularity of the new-space sizes
newSpaceGranularity(alignment) == UDATA(alignment * 2)

\* A faulty variant: the requested overall maximum does not clamp the heap's.
resolvedMaximumHeapSizeUnclamped(maximumHeapSize, memoryMax) == maximumHeapSize

\* maximumHeapSize = OMR_MIN(maximumHeapSize, memoryMax)
resolvedMaximumHeapSize(maximumHeapSize, memoryMax) ==
    OMR_MIN(maximumHeapSize, memoryMax)

\* `in`: the ten size arguments; maximumMemorySize is heap->getMaximumMemorySize().
\* Returns the MM_InitializationParameters written.
runPrepareParameters(alignment, maximumMemorySize, in) ==
    LET maximumHeapSize0 == roundToFloor(alignment, maximumMemorySize)
        minimumNewSpaceSize == roundToCeiling(newSpaceGranularity(alignment), in.minimumNewSpaceSize)
        minimumTenureSpaceSize == roundToCeiling(alignment, in.minimumTenureSpaceSize)
        maximumNewSpaceSize == roundToCeiling(newSpaceGranularity(alignment), in.maximumNewSpaceSize)
        maximumTenureSpaceSize == roundToCeiling(alignment, in.maximumTenureSpaceSize)
        minimumSpaceSize == OMR_MAX(roundToCeiling(alignment, in.minimumSpaceSize),
                                    UDATA(minimumNewSpaceSize + minimumTenureSpaceSize))
        memoryMax == OMR_MAX(roundToCeiling(alignment, in.memoryMax),
                             UDATA(maximumTenureSpaceSize + maximumNewSpaceSize))
        maximumHeapSize == resolvedMaximumHeapSize(maximumHeapSize0, memoryMax)
        initialNewSpaceSize == roundToCeiling(newSpaceGranularity(alignment), in.initialNewSpaceSize)
        initialTenureSpaceSize == roundToCeiling(alignment, in.initialTenureSpaceSize)
        newMin == OMR_MIN(maximumHeapSize, minimumNewSpaceSize)
        newInit == OMR_MIN(maximumHeapSize, initialNewSpaceSize)
    IN  [_minimumSpaceSize |-> OMR_MIN(maximumHeapSize, minimumSpaceSize),
         _minimumNewSpaceSize |-> newMin,
         _initialNewSpaceSize |-> newInit,
         _maximumNewSpaceSize |-> OMR_MIN(maximumHeapSize, maximumNewSpaceSize),
         _minimumOldSpaceSize |-> oldSpaceBeside(maximumHeapSize, newMin, minimumTenureSpaceSize),
         _initialOldSpaceSize |-> oldSpaceBeside(maximumHeapSize, newInit, initialTenureSpaceSize),
         _maximumOldSpaceSize |-> OMR_MIN(maximumHeapSize, maximumTenureSpaceSize),
         _maximumSpaceSize |-> maximumHeapSize]


\* prepareParameters reads extensions->heap and divides by the alignment: it is
\* called once the heap exists and the alignment is set.
prepareParameters(in) ==
    /\ ~ aborted
    /\ extensions.heap # NULL
    /\ getAlignment(extensions, config._alignmentType) > 0
    /\ parameters' = runPrepareParameters(
                         getAlignment(extensions, config._alignmentType),
                         in.maximumMemorySize, in)
    /\ op' = "prepareParameters"
    /\ afterTearDown' = (op = "tearDown")
    /\ args' = in
    /\ ret' = NULL
    /\ log' = << Step("MM_Heap::getMaximumMemorySize", TRUE) >>
    /\ UNCHANGED << extensions, defaultMemorySpace, heapKills, nextHeap, envKills,
                    envs, nextEnv, omrVM, numaCached, delegateUp, aborted, build,
                    config >>

-----------------------------------------------------------------------------
(* What the runtime's startup does between createHeap and tearDown: once    *)
(* the heap is published it creates, in this order, the dispatcher (unless  *)
(* the collector owns it), the allocation manager, the collector and the    *)
(* default memory space; the reference chain walker's mark map comes later. *)

\* extensions->dispatcher = configuration->createParallelDispatcher(...)
createParallelDispatcher(ok) ==
    /\ ~ aborted
    /\ extensions.heap # NULL
    /\ ~ extensions.isMetronomeGC
    /\ extensions.dispatcher = NULL
    /\ extensions' = [extensions EXCEPT !.dispatcher = BoolHandle(ok)]
    /\ op' = "createParallelDispatcher"
    /\ afterTearDown' = (op = "tearDown")
    /\ args' = << >>
    /\ ret' = BoolHandle(ok)
    /\ log' = << [ev |-> "MM_ParallelDispatcher::newInstance", h |-> BoolHandle(ok),
                  ok |-> ok] >>
    /\ UNCHANGED << defaultMemorySpace, heapKills, nextHeap, envKills, envs,
                    nextEnv, omrVM, numaCached, delegateUp, parameters, aborted,
                    build, config >>

StartupFields ==
    << "globalAllocationManager", "globalCollector", "referenceChainWalkerMarkMap" >>

\* What the startup has stored before it stores `field`.
startupReady(ext, field) ==
    CASE field = "globalAllocationManager" ->
            ext.heap # NULL /\ (ext.isMetronomeGC \/ ext.dispatcher # NULL)
      [] field = "globalCollector" -> ext.globalAllocationManager # NULL
      [] field = "referenceChainWalkerMarkMap" -> ext.globalCollector # NULL

\* The startup stores an allocation manager, a collector or a mark map; the
\* Metronome collector creates the dispatcher with itself.
startupStore(field) ==
    /\ ~ aborted
    /\ extensions[field] = NULL
    /\ startupReady(extensions, field)
    /\ extensions' =
          IF field = "globalCollector" /\ extensions.isMetronomeGC
          THEN [extensions EXCEPT ![field] = Obj, !.dispatcher = Obj]
          ELSE [extensions EXCEPT ![field] = Obj]
    /\ op' = "startup"
    /\ afterTearDown' = (op = "tearDown")
    /\ args' = << >>
    /\ ret' = NULL
    /\ log' = << >>
    /\ UNCHANGED << defaultMemorySpace, heapKills, nextHeap, envKills, envs,
                    nextEnv, omrVM, numaCached, delegateUp, parameters, aborted,
                    build, config >>

\* heap->setDefaultMemorySpace(memorySpace) on the published heap.
setDefaultMemorySpace ==
    /\ ~ aborted
    /\ extensions.heap # NULL
    /\ extensions.globalCollector # NULL
    /\ defaultMemorySpace = NULL
    /\ defaultMemorySpace' = Obj
    /\ op' = "startup"
    /\ afterTearDown' = (op = "tearDown")
    /\ args' = << >>
    /\ ret' = NULL
    /\ log' = << >>
    /\ UNCHANGED << extensions, heapKills, nextHeap, envKills, envs, nextEnv,
                    omrVM, numaCached, delegateUp, parameters, aborted, build,
                    config >>

-----------------------------------------------------------------------------
(* The state after construction.  `o` holds the options parsed into the     *)
(* Extensions before the configuration is used.                             *)

ExtensionsAfterConstruction(o) ==
    [heap |-> NULL, memoryManager |-> NULL, heapRegionManager |-> NULL,
     globalAllocationManager |-> NULL, referenceChainWalkerMarkMap |-> NULL,
     globalCollector |-> NULL, dispatcher |-> NULL,
     _lightweightNonReentrantLockPool |-> NULL,
     isMetronomeGC |-> o.isMetronomeGC,
     regionSize |-> o.regionSize,
     heapAlignment |-> o.heapAlignment,
     excessiveGCEnabled |-> [_wasSpecified |-> o.excessiveGCSpecified,
                             _valueSpecified |-> FALSE],
     gcThreadCountSpecified |-> o.gcThreadCount # 0,
     gcThreadCount |-> o.gcThreadCount,
     packetListSplitForced |-> o.packetListSplit # 0,
     packetListSplit |-> o.packetListSplit,
     cacheListSplitForced |-> o.cacheListSplit # 0,
     cacheListSplit |-> o.cacheListSplit,
     splitFreeListAmountForced |-> o.splitFreeListSplitAmount # 0,
     splitFreeListSplitAmount |-> o.splitFreeListSplitAmount,
     scavengerEnabled |-> o.scavengerEnabled,
     scavengerScanOrdering |-> o.scavengerScanOrdering,
     adaptiveGcCountBetweenHotFieldSort |-> FALSE]

NoParameters ==
    [_minimumSpaceSize |-> 0, _minimumNewSpaceSize |-> 0, _initialNewSpaceSize |-> 0,
     _maximumNewSpaceSize |-> 0, _minimumOldSpaceSize |-> 0,
     _initialOldSpaceSize |-> 0, _maximumOldSpaceSize |-> 0,
     _maximumSpaceSize |-> 0]

InitWith(o, bld, cfg) ==
    /\ extensions = ExtensionsAfterConstruction(o)
    /\ defaultMemorySpace = NULL
    /\ heapKills = [h \in 1..MaxHeaps |-> 0]
    /\ nextHeap = 0
    /\ envKills = [e \in 1..MaxEnvs |-> 0]
    /\ envs = [e \in 1..MaxEnvs |-> NoEnvironment]
    /\ nextEnv = 0
    /\ omrVM = [_compressedPointersShift |-> 0, _arrayletLeafSize |-> 0,
                _arrayletLeafLogSize |-> 0]
    /\ numaCached = FALSE
    /\ delegateUp = FALSE
    /\ parameters = NoParameters
    /\ op = "new"
    /\ afterTearDown = FALSE
    /\ args = << >>
    /\ ret = NULL
    /\ log = << >>
    /\ aborted = FALSE
    /\ build = bld
    /\ config = cfg


-----------------------------------------------------------------------------
(* The lifecycle specification: initialize, createHeap, the runtime's       *)
(* startup and tearDown, called in any order.                               *)

DefaultBuild ==
    [OMR_GC_COMPRESSED_POINTERS |-> TRUE, OMR_GC_MODRON_SCAVENGER |-> TRUE,
     OMR_GC_THREAD_LOCAL_HEAP |-> TRUE, OMR_GC_SEGREGATED_HEAP |-> TRUE,
     J9VM_OPT_CRIU_SUPPORT |-> TRUE, S390 |-> FALSE, fatalAssertions |-> TRUE]

DefaultConfig ==
    [_allocationType |-> "gc_modron_allocation_type_tlh",
     _alignmentType |-> "mm_heapAlignment",
     _defaultRegionSize |-> 2 ^ MinShift,
     _defaultArrayletLeafSize |-> 0]

DefaultOptions ==
    [isMetronomeGC |-> FALSE, regionSize |-> 0, heapAlignment |-> 1,
     excessiveGCSpecified |-> FALSE, gcThreadCount |-> 0, packetListSplit |-> 0,
     cacheListSplit |-> 0, splitFreeListSplitAmount |-> 0,
     scavengerEnabled |-> TRUE, scavengerScanOrdering |-> "NONE"]

\* What the collaborators answer when nothing fails.
InitializeOK ==
    [verifyRegionSize |-> TRUE, delegateInitialize |-> TRUE,
     recacheNUMASupport |-> TRUE, pool_new |-> TRUE, cpus |-> 2, maxGC |-> 1]

\* A heap of [1, 4] (in units of 2^30 bytes) under the default options.
CreateHeapOK ==
    [newMemoryManager |-> TRUE, createHeapRegionManager |-> TRUE,
     createHeapWithManager |-> TRUE, initializeHeapRegionManager |-> TRUE,
     heapInitialized |-> TRUE, heapBase |-> 1, heapTop |-> maxAddressValue,
     fvtest_verifyHeapAbove |-> NULL, fvtest_verifyHeapBelow |-> NULL,
     compressObjectReferences |-> TRUE, shouldAllowShiftingCompression |-> TRUE,
     shouldForceSpecifiedShiftingCompression |-> FALSE,
     forcedShiftingCompressionAmount |-> 0,
     shouldForceLowMemoryHeapCeilingShiftIfPossible |-> FALSE,
     undefShl |-> FALSE]

\* The calls of the lifecycle specification: all collaborators succeed, or one fails.
LifeInitializeInputs ==
    { InitializeOK,
      [InitializeOK EXCEPT !.verifyRegionSize = FALSE],
      [InitializeOK EXCEPT !.delegateInitialize = FALSE],
      [InitializeOK EXCEPT !.recacheNUMASupport = FALSE],
      [InitializeOK EXCEPT !.pool_new = FALSE] }

LifeCreateHeapInputs ==
    { CreateHeapOK,
      [CreateHeapOK EXCEPT !.newMemoryManager = FALSE],
      [CreateHeapOK EXCEPT !.createHeapRegionManager = FALSE],
      [CreateHeapOK EXCEPT !.createHeapWithManager = FALSE],
      [CreateHeapOK EXCEPT !.initializeHeapRegionManager = FALSE],
      [CreateHeapOK EXCEPT !.heapInitialized = FALSE],
      \* too high to address under the starting shift
      [CreateHeapOK EXCEPT !.heapTop = maxAddressValue * 2 ^ LOW_MEMORY_HEAP_CEILING_SHIFT + 1],
      \* below, and above, the fvtest window
      [CreateHeapOK EXCEPT !.fvtest_verifyHeapAbove = 2],
      [CreateHeapOK EXCEPT !.fvtest_verifyHeapBelow = 3] }

LifeOptions == { [DefaultOptions EXCEPT !.isMetronomeGC = m] : m \in BOOLEAN }

LifeBuilds == { [DefaultBuild EXCEPT !.fatalAssertions = f] : f \in BOOLEAN }

Init ==
    \E o \in LifeOptions, bld \in LifeBuilds : InitWith(o, bld, DefaultConfig)

Next ==
    \/ \E in \in LifeInitializeInputs : initialize(in)
    \/ \E in \in LifeCreateHeapInputs : createHeap(in)
    \/ \E ok \in BOOLEAN : createParallelDispatcher(ok)
    \/ \E i \in 1..Len(StartupFields) : startupStore(StartupFields[i])
    \/ setDefaultMemorySpace
    \/ tearDown

Spec == Init /\ [][Next]_vars


-----------------------------------------------------------------------------
(* Properties of tearDown.                                                  *)

\* The destroy operations of tearDown, in the order the specification gives.
DestroyOrder ==
    << "MM_MemorySpace::kill", "MM_ReferenceChainWalkerMarkMap::kill",
       "MM_Collector::kill", "MM_ParallelDispatcher::kill",
       "MM_GlobalAllocationManager::kill", "MM_Heap::kill",
       "MM_MemoryManager::kill", "MM_HeapRegionManager::kill", "pool_kill",
       "MM_NUMAManager::shutdownNUMASupport" >>

DestroyNames == { DestroyOrder[i] : i \in 1..Len(DestroyOrder) }

Rank(name) == CHOOSE i \in 1..Len(DestroyOrder) : DestroyOrder[i] = name

\* The destroy operations the last call performed, in the order it performed them.
Destroys == SelectNames(EventNames(log), DestroyNames)

\* C1: in every tearDown the destroy operations that fire occur in the order
\* default memory space, mark map, collector, dispatcher, allocation manager,
\* heap, memory manager, region manager, lock pool, NUMA support; the
\* dispatcher is destroyed only when the collector is not Metronome.
C1_TearDownOrder ==
    op = "tearDown" =>
        /\ \A i, j \in 1..Len(Destroys) :
              i < j => Rank(Destroys[i]) < Rank(Destroys[j])
        /\ extensions.isMetronomeGC =>
              \A i \in 1..Len(Destroys) : Destroys[i] # "MM_ParallelDispatcher::kill"

\* A tearDown in which all ten destroy operations fired.
C1_Witness ==
    /\ op = "tearDown"
    /\ Len(Destroys) = Len(DestroyOrder)

\* C2: NUMA support shutdown is the last operation of tearDown: nothing, the
\* delegate included, is torn down after shutdownNUMASupport.
C2_NumaShutdownIsLast ==
    op = "tearDown" =>
        /\ Len(log) > 0
        /\ log[Len(log)].ev = "MM_NUMAManager::shutdownNUMASupport"

\* C3 as stated: a tearDown directly after a tearDown performs no operation.
C3_SecondTearDownDoesNothing ==
    (op = "tearDown" /\ afterTearDown) => log = << >>

\* C3 as amended: a tearDown directly after a tearDown kills nothing and
\* changes no handle, no heap and no memory space; it only repeats the two
\* unguarded calls, shutdownNUMASupport and the delegate's tearDown.
C3_SecondTearDownKillsNothing ==
    [][ (op = "tearDown" /\ op' = "tearDown") =>
            /\ EventNames(log') = << "MM_NUMAManager::shutdownNUMASupport",
                                     "MM_ConfigurationDelegate::tearDown" >>
            /\ extensions' = extensions
            /\ defaultMemorySpace' = defaultMemorySpace
            /\ heapKills' = heapKills
            /\ ~ aborted' ]_vars

\* A second tearDown in a row, after the first one killed a heap.
C3_Witness ==
    /\ op = "tearDown"
    /\ afterTearDown
    /\ \E h \in 1..MaxHeaps : heapKills[h] = 1
    /\ Len(log) = 2

\* The handles that tearDown destroys through a presence check, each with the
\* destroy operation made on it.
GuardedHandles ==
    { << "referenceChainWalkerMarkMap", "MM_ReferenceChainWalkerMarkMap::kill" >>,
      << "globalCollector", "MM_Collector::kill" >>,
      << "globalAllocationManager", "MM_GlobalAllocationManager::kill" >>,
      << "heap", "MM_Heap::kill" >>,
      << "memoryManager", "MM_MemoryManager::kill" >>,
      << "heapRegionManager", "MM_HeapRegionManager::kill" >>,
      << "_lightweightNonReentrantLockPool", "pool_kill" >> }

Fired(s, name) == \E i \in 1..Len(s) : s[i].ev = name

\* C4: from every reachable state tearDown makes no call on an absent handle,
\* performs each guarded step exactly when its handle is present (the
\* dispatcher's only outside Metronome, the memory space's only on a present
\* heap), and leaves the heap, memory manager, region manager, allocation
\* manager, mark map, collector and lock pool handles absent.
C4_TearDownGuarded ==
    [][ op' = "tearDown" =>
            /\ \A i \in 1..Len(log') : log'[i].h # NULL
            /\ \A g \in GuardedHandles :
                  /\ Fired(log', g[2]) <=> (extensions[g[1]] # NULL)
                  /\ extensions'[g[1]] = NULL
            /\ Fired(log', "MM_ParallelDispatcher::kill")
                  <=> (extensions.dispatcher # NULL /\ ~ extensions.isMetronomeGC)
            /\ Fired(log', "MM_MemorySpace::kill")
                  <=> (extensions.heap # NULL /\ defaultMemorySpace # NULL)
            /\ Fired(log', "MM_Heap::setDefaultMemorySpace")
                  <=> (extensions.heap # NULL) ]_vars

\* A tearDown of a partially initialized instance: the memory manager was
\* there, the heap and the lock pool were not.
C4_Witness ==
    /\ op = "tearDown"
    /\ Fired(log, "MM_MemoryManager::kill")
    /\ ~ Fired(log, "MM_Heap::kill")
    /\ ~ Fired(log, "pool_kill")

-----------------------------------------------------------------------------
(* Properties of initialize.                                                *)

InitializeOrder ==
    << "initializeRegionSize", "initializeArrayletLeafSize",
       "MM_ConfigurationDelegate::initialize", "initializeNUMAManager",
       "initializeGCThreadCount", "initializeGCParameters", "pool_new" >>

InitializeNames == { InitializeOrder[i] : i \in 1..Len(InitializeOrder) }

RECURSIVE SelectEvents(_, _)
SelectEvents(s, keep) ==
    IF s = << >> THEN << >>
    ELSE IF Head(s).ev \in keep THEN << Head(s) >> \o SelectEvents(Tail(s), keep)
    ELSE SelectEvents(Tail(s), keep)

\* The steps the last call of initialize ran, each with its result.
InitializeSteps == SelectEvents(log, InitializeNames)

TearDownNames == DestroyNames \union { "MM_ConfigurationDelegate::tearDown",
                                       "MM_Heap::setDefaultMemorySpace" }

\* C5: initialize runs its seven steps in order, stops at the first step that
\* fails, returns true exactly when all seven ran and succeeded, and destroys
\* nothing: what a successful earlier step set up is still there on return.
C5_InitializeShortCircuits ==
    (op = "initialize" /\ ~ aborted) =>
        LET steps == InitializeSteps
            n == Len(steps)
        IN  /\ n >= 1
            /\ EventNames(steps) = SubSeq(InitializeOrder, 1, n)
            /\ \A i \in 1..(n - 1) : steps[i].ok
            /\ ret = (n = Len(InitializeOrder) /\ \A i \in 1..n : steps[i].ok)
            /\ \A i \in 1..Len(log) : log[i].ev \notin TearDownNames
            /\ (n >= 3 /\ steps[3].ok) => delegateUp
            /\ (n >= 4 /\ steps[4].ok) => numaCached
            /\ (n >= 5) => extensions.gcThreadCount > 0
            /\ (n >= 7 /\ steps[7].ok) =>
                  extensions._lightweightNonReentrantLockPool # NULL

\* An initialize that stopped at the failing NUMA activation.
C5_Witness ==
    /\ op = "initialize"
    /\ Len(InitializeSteps) = 4
    /\ ~ InitializeSteps[4].ok
    /\ ret = FALSE

-----------------------------------------------------------------------------
(* Properties of createHeap.                                                *)

CreateHeapSteps ==
    { "createHeapWithManager", "MM_Heap::initializeHeapRegionManager",
      "initializeRunTimeObjectAlignmentAndCRShift",
      "MM_ConfigurationDelegate::heapInitialized" }

\* The heap the last createHeap constructed, NULL if it constructed none.
ConstructedHeap ==
    IF \E i \in 1..Len(log) : log[i].ev = "createHeapWithManager"
    THEN (CHOOSE e \in { log[i] : i \in 1..Len(log) } :
              e.ev = "createHeapWithManager").h
    ELSE NULL

\* The fvtest address window admits the heap of the last createHeap.
InsideVerifyWindow ==
    /\ args.heapBase >= args.fvtest_verifyHeapAbove
    /\ (args.fvtest_verifyHeapBelow # NULL =>
            args.heapTop <= args.fvtest_verifyHeapBelow)

\* C6: createHeap returns a heap only if the memory manager and the region
\* manager exist and construction, region-manager initialization, the
\* alignment and shift computation, the delegate hook and the fvtest window
\* check all succeeded; when it returns null, the heap it constructed (if any)
\* has been killed exactly once and is not the Extensions' heap.
C6_CreateHeapAllOrNothing ==
    (op = "createHeap" /\ ~ aborted) =>
        /\ ret # NULL =>
              /\ ret = ConstructedHeap
              /\ extensions.memoryManager # NULL
              /\ extensions.heapRegionManager # NULL
              /\ \A name \in CreateHeapSteps : Fired(log, name)
              /\ \A i \in 1..Len(log) : log[i].ok
              /\ InsideVerifyWindow
              /\ extensions.heap = ret
              /\ heapKills[ret] = 0
        /\ ((\E i \in 1..Len(log) : ~ log[i].ok) \/ ~ InsideVerifyWindow) => ret = NULL
        /\ (ret = NULL /\ ConstructedHeap # NULL) =>
              /\ heapKills[ConstructedHeap] = 1
              /\ extensions.heap # ConstructedHeap

\* A createHeap whose heap passed every step but lies above the fvtest window:
\* it was killed and null was returned.
C6_Witness ==
    /\ op = "createHeap"
    /\ ret = NULL
    /\ ConstructedHeap # NULL
    /\ \A i \in 1..Len(log) : log[i].ok
    /\ heapKills[ConstructedHeap] = 1
    /\ ~ InsideVerifyWindow


-----------------------------------------------------------------------------
(* The environment specification: createEnvironment called repeatedly, for  *)
(* every allocation type and every build of the allocation interfaces.      *)

AllocationTypes ==
    { "gc_modron_allocation_type_tlh", "gc_modron_allocation_type_segregated",
      "gc_modron_allocation_type_illegal" }

EnvBuilds ==
    { [DefaultBuild EXCEPT !.OMR_GC_THREAD_LOCAL_HEAP = t,
                           !.OMR_GC_SEGREGATED_HEAP = s,
                           !.fatalAssertions = f] :
        t \in BOOLEAN, s \in BOOLEAN, f \in BOOLEAN }

EnvConfigs == { [DefaultConfig EXCEPT !._allocationType = a] : a \in AllocationTypes }

CreateEnvironmentInputs ==
    [allocateNewEnvironment : BOOLEAN, newAllocationInterface : BOOLEAN,
     environmentInitialized : BOOLEAN]

InitEnv ==
    \E bld \in EnvBuilds, cfg \in EnvConfigs : InitWith(DefaultOptions, bld, cfg)

NextEnv ==
    \E in \in CreateEnvironmentInputs : createEnvironment(in)

SpecEnv == InitEnv /\ [][NextEnv]_vars

\* The Environment the last createEnvironment allocated, NULL if none.
AllocatedEnvironment ==
    IF \E i \in 1..Len(log) : log[i].ev = "allocateNewEnvironment"
    THEN (CHOOSE e \in { log[i] : i \in 1..Len(log) } :
              e.ev = "allocateNewEnvironment").h
    ELSE NULL

\* C7: createEnvironment returns null or an Environment that has its
\* allocation interface and passed the delegate's environmentInitialized
\* hook; when the interface's construction or the hook fails, the allocated
\* Environment is killed exactly once and null is returned.
C7_CreateEnvironmentAllOrNothing ==
    (op = "createEnvironment" /\ ~ aborted) =>
        /\ ret # NULL =>
              /\ ret = AllocatedEnvironment
              /\ envs[ret]._objectAllocationInterface # NULL
              /\ envs[ret].variant =
                    (IF config._allocationType = "gc_modron_allocation_type_tlh"
                     THEN "MM_TLHAllocationInterface"
                     ELSE "MM_SegregatedAllocationInterface")
              /\ args.newAllocationInterface
              /\ args.environmentInitialized
              /\ envKills[ret] = 0
        /\ (/\ AllocatedEnvironment # NULL
            /\ \/ envs[AllocatedEnvironment]._objectAllocationInterface = NULL
               \/ ~ args.environmentInitialized) =>
              /\ ret = NULL
              /\ envKills[AllocatedEnvironment] = 1
        /\ \A e \in 1..MaxEnvs : envKills[e] <= 1

\* A createEnvironment whose interface was built and whose delegate hook
\* failed: the Environment was killed once and null returned.
C7_Witness ==
    /\ op = "createEnvironment"
    /\ AllocatedEnvironment # NULL
    /\ envs[AllocatedEnvironment]._objectAllocationInterface # NULL
    /\ ~ args.environmentInitialized
    /\ envKills[AllocatedEnvironment] = 1
    /\ ret = NULL


-----------------------------------------------------------------------------
(* The sizing specification: a heap is published, the requested sizes are   *)
(* drawn from bounded sets and prepareParameters negotiates them.           *)

MaxSize == 3
MaxAlign == 2

\* Requested generation bounds: small ones and one next to the top of the
\* uintptr_t range.
GenerationSizes == (0 .. MaxSize) \cup {UDATA_MAX - 1}

SizingRequests ==
    [minimumSpaceSize : {0, MaxSize},
     minimumNewSpaceSize : GenerationSizes,
     initialNewSpaceSize : {0, MaxSize},
     maximumNewSpaceSize : GenerationSizes,
     minimumTenureSpaceSize : GenerationSizes,
     initialTenureSpaceSize : {0, MaxSize},
     maximumTenureSpaceSize : GenerationSizes,
     memoryMax : {0, MaxSize, UDATA_MAX},
     maximumMemorySize : {MaxSize, 2 * MaxSize, UDATA_MAX}]

\* The state once createHeap has published heap 1 with the given alignment.
InitParams ==
    \E alignment \in 1 .. MaxAlign, request \in SizingRequests :
        /\ extensions = [ExtensionsAfterConstruction(
                             [DefaultOptions EXCEPT !.heapAlignment = alignment])
                         EXCEPT !.heap = 1, !.memoryManager = Obj,
                                !.heapRegionManager = Obj]
        /\ defaultMemorySpace = NULL
        /\ heapKills = [h \in 1..MaxHeaps |-> 0]
        /\ nextHeap = 1
        /\ envKills = [e \in 1..MaxEnvs |-> 0]
        /\ envs = [e \in 1..MaxEnvs |-> NoEnvironment]
        /\ nextEnv = 0
        /\ omrVM = [_compressedPointersShift |-> 0, _arrayletLeafSize |-> 0,
                    _arrayletLeafLogSize |-> 0]
        /\ numaCached = FALSE
        /\ delegateUp = FALSE
        /\ parameters = NoParameters
        /\ op = "createHeap"
        /\ afterTearDown = FALSE
        /\ args = request
        /\ ret = 1
        /\ log = << >>
        /\ aborted = FALSE
        /\ build = DefaultBuild
        /\ config = DefaultConfig

NextParams == prepareParameters(args)

SpecParams == InitParams /\ [][NextParams]_vars

\* The rounded requests, before any wrap-around.
RoundedUp(granularity, number) ==
    IF number % granularity # 0
    THEN number + (granularity - (number % granularity)) ELSE number

\* No rounded request and no sum of two of them leaves the uintptr_t range.
Representable ==
    LET a == extensions.heapAlignment
    IN  /\ RoundedUp(a, args.minimumSpaceSize) <= UDATA_MAX
        /\ RoundedUp(a, args.memoryMax) <= UDATA_MAX
        /\ RoundedUp(a, args.initialTenureSpaceSize) <= UDATA_MAX
        /\ RoundedUp(2 * a, args.initialNewSpaceSize) <= UDATA_MAX
        /\ RoundedUp(2 * a, args.minimumNewSpaceSize)
              + RoundedUp(a, args.minimumTenureSpaceSize) <= UDATA_MAX
        /\ RoundedUp(2 * a, args.maximumNewSpaceSize)
              + RoundedUp(a, args.maximumTenureSpaceSize) <= UDATA_MAX

\* C8 as stated: after prepareParameters, for every request,
\* minimumNew + minimumOld <= minimumSpaceSize <= maximumSpaceSize and
\* maximumNew + maximumOld <= maximumSpaceSize <= the heap's capacity.
C8_ParametersOrdered ==
    op = "prepareParameters" =>
        /\ parameters._minimumNewSpaceSize + parameters._minimumOldSpaceSize
              <= parameters._minimumSpaceSize
        /\ parameters._minimumSpaceSize <= parameters._maximumSpaceSize
        /\ parameters._maximumNewSpaceSize + parameters._maximumOldSpaceSize
              <= parameters._maximumSpaceSize
        /\ parameters._maximumSpaceSize <= args.maximumMemorySize

\* C8 (amended): after prepareParameters, minimumSpaceSize <= maximumSpaceSize
\* <= the heap's capacity, and each written generation bound is at most
\* maximumSpaceSize; when the rounded requests and their sums are
\* representable, also minimumNew + minimumOld <= minimumSpaceSize and
\* initialNew + initialOld <= maximumSpaceSize, and maximumNew + maximumOld <=
\* maximumSpaceSize whenever the capacity rounded down to the alignment is at
\* least the sum of the rounded maximum requests.
C8_ParametersBounded ==
    op = "prepareParameters" =>
        LET a == extensions.heapAlignment
            p == parameters
        IN  /\ p._minimumSpaceSize <= p._maximumSpaceSize
            /\ p._maximumSpaceSize <= args.maximumMemorySize
            /\ \A f \in {"_minimumNewSpaceSize", "_initialNewSpaceSize",
                         "_maximumNewSpaceSize", "_minimumOldSpaceSize",
                         "_initialOldSpaceSize", "_maximumOldSpaceSize"} :
                  p[f] <= p._maximumSpaceSize
            /\ Representable =>
                  /\ p._minimumNewSpaceSize + p._minimumOldSpaceSize
                        <= p._minimumSpaceSize
                  /\ p._initialNewSpaceSize + p._initialOldSpaceSize
                        <= p._maximumSpaceSize
                  /\ (RoundedUp(2 * a, args.maximumNewSpaceSize)
                         + RoundedUp(a, args.maximumTenureSpaceSize)
                         <= roundToFloor(a, args.maximumMemorySize))
                        => (p._maximumNewSpaceSize + p._maximumOldSpaceSize
                               <= p._maximumSpaceSize)

\* The heap is smaller than the requested generations, which are clamped: the
\* minimum old space is what the minimum new space leaves.
C8_Witness ==
    /\ op = "prepareParameters"
    /\ Representable
    /\ parameters._maximumSpaceSize < args.maximumNewSpaceSize
    /\ parameters._minimumNewSpaceSize > 0
    /\ parameters._minimumOldSpaceSize > 0
    /\ parameters._minimumOldSpaceSize < args.minimumTenureSpaceSize


-----------------------------------------------------------------------------
(* The shift specification: createHeap on a freshly constructed             *)
(* configuration, for every heap top, every setting of the shifting options *)
(* and both kinds of platform.                                              *)

\* Heap tops reach one past 2^32 << LOW_MEMORY_HEAP_CEILING_SHIFT, the largest
\* the starting shift addresses.
MaxHeapTop == 65
MaxForcedShift == 4

ShiftBuilds ==
    { [DefaultBuild EXCEPT !.S390 = s, !.fatalAssertions = f] :
          s \in BOOLEAN, f \in BOOLEAN }

ShiftInputs ==
    { [CreateHeapOK EXCEPT
           !.heapTop = top,
           !.compressObjectReferences = c,
           !.shouldAllowShiftingCompression = allow,
           !.shouldForceSpecifiedShiftingCompression = force,
           !.forcedShiftingCompressionAmount = amount,
           !.shouldForceLowMemoryHeapCeilingShiftIfPossible = low,
           !.undefShl = u] :
          top \in 1 .. MaxHeapTop, c \in BOOLEAN, allow \in BOOLEAN,
          force \in BOOLEAN, amount \in 0 .. MaxForcedShift, low \in BOOLEAN,
          u \in BOOLEAN }

InitShift ==
    \E bld \in ShiftBuilds, in \in ShiftInputs :
        /\ extensions = ExtensionsAfterConstruction(DefaultOptions)
        /\ defaultMemorySpace = NULL
        /\ heapKills = [h \in 1..MaxHeaps |-> 0]
        /\ nextHeap = 0
        /\ envKills = [e \in 1..MaxEnvs |-> 0]
        /\ envs = [e \in 1..MaxEnvs |-> NoEnvironment]
        /\ nextEnv = 0
        /\ omrVM = [_compressedPointersShift |-> 0, _arrayletLeafSize |-> 0,
                    _arrayletLeafLogSize |-> 0]
        /\ numaCached = FALSE
        /\ delegateUp = FALSE
        /\ parameters = NoParameters
        /\ op = "new"
        /\ afterTearDown = FALSE
        /\ args = in
        /\ ret = NULL
        /\ log = << >>
        /\ aborted = FALSE
        /\ build = bld
        /\ config = DefaultConfig

NextShift == createHeap(args)

SpecShift == InitShift /\ [][NextShift]_vars

\* The last call was a createHeap whose shift computation ran with compressed
\* references and returned true: it published a shift.
ShiftPublished ==
    /\ op = "createHeap"
    /\ build.OMR_GC_COMPRESSED_POINTERS
    /\ args.compressObjectReferences
    /\ \E i \in 1..Len(log) :
          /\ log[i].ev = "initializeRunTimeObjectAlignmentAndCRShift"
          /\ log[i].ok

\* heapTop <= 2^32 << shift
Addressable(heapTop, shift) == heapTop <= maxAddressValue * 2 ^ shift

\* The smallest shift under which heapTop is addressable.
SmallestShift(heapTop) ==
    CHOOSE s \in 0 .. LOW_MEMORY_HEAP_CEILING_SHIFT :
        /\ Addressable(heapTop, s)
        /\ \A t \in 0 .. (s - 1) : ~ Addressable(heapTop, t)

\* The floor of the platform: the default low-memory ceiling shift where the
\* smallest shift is not zero and the platform is not s390, or where the
\* force-low-ceiling policy is set.
PlatformFloor ==
    IF \/ args.shouldForceLowMemoryHeapCeilingShiftIfPossible
       \/ (~ build.S390 /\ SmallestShift(args.heapTop) # 0)
    THEN DEFAULT_LOW_MEMORY_HEAP_CEILING_SHIFT
    ELSE 0

\* C9: whenever a compression shift is published, heapTop <= 2^32 << shift;
\* when the shift is not forced, shift - 1 would violate that bound or fall
\* below the platform floor.
C9_ShiftBoundedAndMinimal ==
    ShiftPublished =>
        LET shift == omrVM._compressedPointersShift
        IN  /\ Addressable(args.heapTop, shift)
            /\ ~ args.shouldForceSpecifiedShiftingCompression =>
                  \/ shift = 0
                  \/ ~ Addressable(args.heapTop, shift - 1)
                  \/ shift - 1 < PlatformFloor

\* An unforced shift above the floor was published: the clamp chose it.
C9_Witness ==
    /\ ShiftPublished
    /\ ~ args.shouldForceSpecifiedShiftingCompression
    /\ omrVM._compressedPointersShift > DEFAULT_LOW_MEMORY_HEAP_CEILING_SHIFT
    /\ ~ Addressable(args.heapTop, omrVM._compressedPointersShift - 1)


-----------------------------------------------------------------------------
(* The tuning specification: initialize, called with every CPU count and    *)
(* every delegate maximum, with the thread count specified by the user or   *)
(* not, in a build with or without checkpoint support.                      *)

MaxCPUs == 9
MaxGCThreads == 5

TuneOptions ==
    { [DefaultOptions EXCEPT !.gcThreadCount = n] : n \in {0, MaxGCThreads} }

TuneBuilds ==
    { [DefaultBuild EXCEPT !.J9VM_OPT_CRIU_SUPPORT = c] : c \in BOOLEAN }

\* The port layer reports at least one CPU and the delegate allows at least
\* one thread; the NUMA manager may fail before the thread count is reached.
TuneInputs ==
    { [InitializeOK EXCEPT !.cpus = c, !.maxGC = m, !.recacheNUMASupport = n] :
          c \in 1 .. MaxCPUs, m \in 1 .. MaxGCThreads, n \in BOOLEAN }

InitTune ==
    \E o \in TuneOptions, bld \in TuneBuilds : InitWith(o, bld, DefaultConfig)

NextTune == \E in \in TuneInputs : initialize(in)

SpecTune == InitTune /\ [][NextTune]_vars

\* The last call was an initialize that reached initializeGCThreadCount.
ThreadCountInitialized ==
    /\ op = "initialize"
    /\ \E i \in 1..Len(log) : log[i].ev = "initializeGCThreadCount"

\* min(C, M)
Smaller(C, M) == CHOOSE n \in {C, M} : \A x \in {C, M} : n <= x

-----------------------------------------------------------------------------
(* MM_Configuration::reinitializeForRestore (builds with                    *)
(* J9VM_OPT_CRIU_SUPPORT).  `in` holds what the collaborators answer:       *)
(*   cpus, maxGC: as for initialize;                                        *)
(*   threadCountMaximum: extensions->dispatcher->threadCountMaximum();      *)
(*   delegateReinitializeForRestore: the delegate's restore hook;           *)
(*   envReinitializeForRestore[e]: walkEnv->reinitializeForRestore() of     *)
(*   Environment e (each TRUE for success).                                 *)

\* The thread list the iterator walks: the live Environments, oldest first.
RECURSIVE liveEnvironments(_, _, _)
liveEnvironments(kills, next, e) ==
    IF e > next THEN << >>
    ELSE (IF kills[e] = 0 THEN << e >> ELSE << >>)
         \o liveEnvironments(kills, next, e + 1)

\* The walk that visits every Environment, whatever the earlier ones answered.
RECURSIVE walkEveryThread(_, _)
walkEveryThread(threads, answers) ==
    IF threads = << >> THEN [result |-> TRUE, log |-> << >>]
    ELSE LET walkEnv == Head(threads)
             visit == << [ev |-> "MM_EnvironmentBase::reinitializeForRestore",
                          h |-> walkEnv, ok |-> answers[walkEnv]] >>
             rest == walkEveryThread(Tail(threads), answers)
         IN  [result |-> answers[walkEnv] /\ rest.result,
              log |-> visit \o rest.log]

\* while (NULL != (walkThread = threadListIterator.nextOMRVMThread())) { ... }
\* Returns [result, log]: the walk returns false at the first failure.
RECURSIVE walkThreads(_, _)
walkThreads(threads, answers) ==
    IF threads = << >> THEN [result |-> TRUE, log |-> << >>]
    ELSE LET walkEnv == Head(threads)
             visit == << [ev |-> "MM_EnvironmentBase::reinitializeForRestore",
                          h |-> walkEnv, ok |-> answers[walkEnv]] >>
         IN  IF ~ answers[walkEnv]
             THEN [result |-> FALSE, log |-> visit]
             ELSE LET rest == walkThreads(Tail(threads), answers)
                  IN  [result |-> rest.result, log |-> visit \o rest.log]

\* The thread count kept after the restore without looking at the dispatcher.
restoredThreadCountDerivedOnly(threadCountMaximum, gcThreadCount) == gcThreadCount

\* extensions->gcThreadCount = OMR_MAX(dispatcher->threadCountMaximum(), gcThreadCount)
restoredThreadCount(threadCountMaximum, gcThreadCount) ==
    OMR_MAX(threadCountMaximum, gcThreadCount)

\* A faulty variant: the restore replaces the lock pool, as initialize builds
\* it, besides tuning the thread count and the parameters.
runReinitializeForRestoreRebuilding(ext, kills, next, bld, in) ==
    LET tc == initializeGCThreadCount(ext, bld, in.cpus, in.maxGC)
        e2 == [tc.ext EXCEPT
                 !.gcThreadCount = OMR_MAX(in.threadCountMaximum, @)]
        gp == initializeGCParameters(e2, bld, in.cpus)
    IN  [result |-> in.delegateReinitializeForRestore,
         ext |-> [gp.ext EXCEPT !._lightweightNonReentrantLockPool = NULL],
         log |-> << Step("initializeGCThreadCount", TRUE),
                    Step("initializeGCParameters", 0 < e2.gcThreadCount),
                    Event("pool_kill", ext._lightweightNonReentrantLockPool) >>,
         asserted |-> gp.asserted]

\* Returns [result, ext, log, asserted].
runReinitializeForRestore(ext, kills, next, bld, in) ==
    LET tc == initializeGCThreadCount(ext, bld, in.cpus, in.maxGC)
        l1 == << Step("initializeGCThreadCount", TRUE) >> \o tc.log
        e2 == [tc.ext EXCEPT
                 !.gcThreadCount = restoredThreadCount(in.threadCountMaximum, @)]
        l2 == l1 \o << Event("MM_ParallelDispatcher::threadCountMaximum",
                             ext.dispatcher) >>
        gp == initializeGCParameters(e2, bld, in.cpus)
        l3 == l2 \o << Step("initializeGCParameters", 0 < e2.gcThreadCount) >>
        l4 == l3 \o << Step("MM_ConfigurationDelegate::reinitializeForRestore",
                            in.delegateReinitializeForRestore) >>
        walk == walkThreads(liveEnvironments(kills, next, 1),
                            in.envReinitializeForRestore)
    IN  IF gp.asserted
        THEN [result |-> FALSE, ext |-> e2, log |-> l3, asserted |-> TRUE]
        ELSE IF ~ in.delegateReinitializeForRestore
        THEN [result |-> FALSE, ext |-> gp.ext, log |-> l4, asserted |-> FALSE]
        ELSE [result |-> walk.result, ext |-> gp.ext, log |-> l4 \o walk.log,
              asserted |-> FALSE]

\* The restore runs in a started runtime: the dispatcher it reads exists.
reinitializeForRestore(in) ==
    /\ ~ aborted
    /\ build.J9VM_OPT_CRIU_SUPPORT
    /\ extensions.dispatcher # NULL
    /\ LET r == runReinitializeForRestore(extensions, envKills, nextEnv, build, in)
       IN  /\ extensions' = r.ext
           /\ log' = r.log
           /\ ret' = r.result
           /\ aborted' = r.asserted
    /\ op' = "reinitializeForRestore"
    /\ afterTearDown' = (op = "tearDown")
    /\ args' = in
    /\ UNCHANGED << defaultMemorySpace, heapKills, nextHeap, envKills, envs, nextEnv,
                    omrVM, numaCached, delegateUp, parameters, build, config >>


-----------------------------------------------------------------------------
(* The restore specification: a runtime built with checkpoint support, its  *)
(* heap published, is initialized, creates its dispatcher, attaches threads *)
(* and is restored any number of times, with any CPU count and any          *)
(* dispatcher maximum.                                                      *)

MaxDispatcherThreads == 9

RestoreCPUs == {4, MaxCPUs}
RestoreMaxGC == {1, MaxGCThreads}
DispatcherMaxima == {1, MaxDispatcherThreads - 1, MaxDispatcherThreads}

RestoreOptions ==
    { [DefaultOptions EXCEPT !.gcThreadCount = n] : n \in {0, MaxGCThreads} }

RestoreInitializeInputs ==
    { [InitializeOK EXCEPT !.cpus = c, !.maxGC = m] :
          c \in RestoreCPUs, m \in RestoreMaxGC }

RestoreEnvironmentInputs ==
    { [allocateNewEnvironment |-> TRUE, newAllocationInterface |-> TRUE,
       environmentInitialized |-> ok] : ok \in BOOLEAN }

\* Every Environment restores, or exactly one of them fails to.
RestoreAnswers ==
    { [e \in 1 .. MaxEnvs |-> TRUE] }
        \cup { [e \in 1 .. MaxEnvs |-> e # f] : f \in 1 .. MaxEnvs }

RestoreInputs ==
    [cpus : RestoreCPUs, maxGC : RestoreMaxGC,
     threadCountMaximum : DispatcherMaxima,
     delegateReinitializeForRestore : BOOLEAN,
     envReinitializeForRestore : RestoreAnswers]

InitRestore ==
    \E o \in RestoreOptions :
        /\ extensions = [ExtensionsAfterConstruction(o)
                         EXCEPT !.heap = 1, !.memoryManager = Obj,
                                !.heapRegionManager = Obj]
        /\ defaultMemorySpace = NULL
        /\ heapKills = [h \in 1..MaxHeaps |-> 0]
        /\ nextHeap = 1
        /\ envKills = [e \in 1..MaxEnvs |-> 0]
        /\ envs = [e \in 1..MaxEnvs |-> NoEnvironment]
        /\ nextEnv = 0
        /\ omrVM = [_compressedPointersShift |-> 0, _arrayletLeafSize |-> 0,
                    _arrayletLeafLogSize |-> 0]
        /\ numaCached = FALSE
        /\ delegateUp = FALSE
        /\ parameters = NoParameters
        /\ op = "createHeap"
        /\ afterTearDown = FALSE
        /\ args = CreateHeapOK
        /\ ret = 1
        /\ log = << >>
        /\ aborted = FALSE
        /\ build = DefaultBuild
        /\ config = DefaultConfig

NextRestore ==
    \/ \E in \in RestoreInitializeInputs : initialize(in)
    \/ createParallelDispatcher(TRUE)
    \/ \E in \in RestoreEnvironmentInputs : createEnvironment(in)
    \/ \E in \in RestoreInputs : reinitializeForRestore(in)

SpecRestore == InitRestore /\ [][NextRestore]_vars

\* The last call set the thread count: an initialize that reached
\* initializeGCThreadCount, or a reinitializeForRestore.
ThreadCountSet ==
    \/ ThreadCountInitialized
    \/ op = "reinitializeForRestore"

\* The assertion 0 < gcThreadCount of the last call's initializeGCParameters held.
TuningAsserted ==
    /\ ~ aborted
    /\ \E i \in 1..Len(log) : log[i].ev = "initializeGCParameters" /\ log[i].ok

C13_RestoreKeepsDispatcherThreads ==
    op = "reinitializeForRestore" =>
        extensions.gcThreadCount >= args.threadCountMaximum

\* An established maximum of 8 and a freshly derived count of 4: 8 is kept.
C13_Witness ==
    /\ op = "reinitializeForRestore"
    /\ ~ extensions.gcThreadCountSpecified
    /\ args.threadCountMaximum = 8
    /\ Smaller(args.cpus, args.maxGC) = 4
    /\ extensions.gcThreadCount = 8


\* The three split factors of the Extensions.
SplitFields == {"packetListSplit", "cacheListSplit", "splitFreeListSplitAmount"}

\* The flag that marks a split factor as forced by the user.
ForcedFlag(field) ==
    CASE field = "packetListSplit" -> "packetListSplitForced"
      [] field = "cacheListSplit" -> "cacheListSplitForced"
      [] field = "splitFreeListSplitAmount" -> "splitFreeListAmountForced"

\* The step is an initialize or a reinitializeForRestore that tuned the
\* parameters.
TunedBy(nextOp, nextLog, nextAborted) ==
    /\ nextOp \in {"initialize", "reinitializeForRestore"}
    /\ ~ nextAborted
    /\ \E i \in 1..Len(nextLog) : nextLog[i].ev = "initializeGCParameters"

\* C14: over any sequence of initialize and reinitializeForRestore calls, no
\* split factor ever decreases; each recomputation of the work-packet and
\* scan-cache factors takes the maximum of the prior value and the amount
\* derived from the thread count, and a forced factor is left as it is.
C14_SplitsNeverDecrease ==
    [][ /\ \A f \in SplitFields : extensions'[f] >= extensions[f]
        /\ TunedBy(op', log', aborted') =>
              /\ \A f \in SplitFields :
                    extensions[ForcedFlag(f)] => extensions'[f] = extensions[f]
              /\ \A f \in {"packetListSplit", "cacheListSplit"} :
                    ~ extensions[ForcedFlag(f)] =>
                        extensions'[f] =
                            IF extensions[f] > (extensions'.gcThreadCount - 1) \div 8 + 1
                            THEN extensions[f]
                            ELSE (extensions'.gcThreadCount - 1) \div 8 + 1
      ]_vars

\* A restore derived a smaller amount than the factor already had, and the
\* factor stayed.
C14_Witness ==
    /\ op = "reinitializeForRestore"
    /\ ~ aborted
    /\ (extensions.gcThreadCount - 1) \div 8 + 1 < extensions.packetListSplit
    /\ (extensions.gcThreadCount - 1) \div 8 + 1 < extensions.splitFreeListSplitAmount

\* The live Environments: allocated and not killed.
LiveEnvironments == { e \in 1 .. nextEnv : envKills[e] = 0 }

\* The Environments the last restore asked to reinitialize.
VisitedEnvironments ==
    { log[i].h : i \in { j \in 1..Len(log) :
                           log[j].ev = "MM_EnvironmentBase::reinitializeForRestore" } }

\* C15: reinitializeForRestore returns true if and only if the delegate's
\* restore hook and every live Environment's reinitializeForRestore succeed;
\* when the hook fails no Environment is visited, and the walk stops at the
\* first Environment that fails.
C15_RestoreResult ==
    (op = "reinitializeForRestore" /\ ~ aborted) =>
        /\ ret = (/\ args.delegateReinitializeForRestore
                  /\ \A e \in LiveEnvironments : args.envReinitializeForRestore[e])
        /\ ~ args.delegateReinitializeForRestore => VisitedEnvironments = {}
        /\ args.delegateReinitializeForRestore =>
              VisitedEnvironments =
                  { e \in LiveEnvironments :
                        \A f \in LiveEnvironments :
                            f < e => args.envReinitializeForRestore[f] }
        /\ Len(SelectNames(EventNames(log), {"MM_EnvironmentBase::reinitializeForRestore"}))
              = Cardinality(VisitedEnvironments)

\* Two threads are attached and the first fails to restore: only it is visited.
C15_Witness ==
    /\ op = "reinitializeForRestore"
    /\ Cardinality(LiveEnvironments) >= 2
    /\ args.delegateReinitializeForRestore
    /\ ret = FALSE
    /\ Cardinality(VisitedEnvironments) = 1
    /\ LiveEnvironments \ VisitedEnvironments # {}


-----------------------------------------------------------------------------
(* The split specification: initialize on configurations whose thread count *)
(* and split factors are forced by the user or not, with a scavenger        *)
(* compiled in and enabled or not.                                          *)

MaxThreads == 17
ForcedSplit == 5

SplitOptions ==
    { [DefaultOptions EXCEPT !.gcThreadCount = t, !.packetListSplit = p,
                             !.cacheListSplit = c, !.splitFreeListSplitAmount = f,
                             !.scavengerEnabled = s] :
          t \in 0 .. MaxThreads, p \in {0, ForcedSplit}, c \in {0, ForcedSplit},
          f \in {0, ForcedSplit}, s \in BOOLEAN }

SplitBuilds ==
    { [DefaultBuild EXCEPT !.OMR_GC_MODRON_SCAVENGER = s,
                           !.J9VM_OPT_CRIU_SUPPORT = c] :
          s \in BOOLEAN, c \in BOOLEAN }

SplitInputs ==
    { [InitializeOK EXCEPT !.cpus = c, !.maxGC = m] :
          c \in {1, MaxCPUs, MaxThreads}, m \in {1, MaxThreads} }

InitSplit ==
    \E o \in SplitOptions, bld \in SplitBuilds : InitWith(o, bld, DefaultConfig)

NextSplit == \E in \in SplitInputs : initialize(in)

SpecSplit == InitSplit /\ [][NextSplit]_vars

\* ((T - 1) / 8) + 1 with integer division
SplitFactor(T) == (T - 1) \div 8 + 1

\* The larger of two amounts.
Larger(a, b) == IF a >= b THEN a ELSE b

\* The scan-cache list exists in this build.
ScavengerBuild == build.OMR_GC_MODRON_SCAVENGER

\* C12: the first initializeGCParameters, on split fields as constructed,
\* sets the work-packet list split and (in a scavenger build) the scan-cache
\* list split to ((T - 1) / 8) + 1 for the thread count T >= 1, and leaves a
\* user-forced field unchanged; the factor is non-decreasing in T.
C12_FirstSplitFactors ==
    [][ (op = "new" /\ TunedBy(op', log', aborted')
            /\ extensions'.gcThreadCount >= 1) =>
          LET T == extensions'.gcThreadCount
          IN  /\ extensions'.packetListSplit =
                    IF extensions.packetListSplitForced
                    THEN extensions.packetListSplit ELSE SplitFactor(T)
              /\ extensions'.cacheListSplit =
                    IF extensions.cacheListSplitForced \/ ~ ScavengerBuild
                    THEN extensions.cacheListSplit ELSE SplitFactor(T)
              /\ \A T1 \in 1 .. T : splitAmountFor(T1) <= splitAmountFor(T)
      ]_vars

\* Seventeen threads or more: an unforced work-packet split of three beside a
\* forced scan-cache split.
C12_Witness ==
    /\ op = "initialize"
    /\ ~ aborted
    /\ ~ extensions.packetListSplitForced
    /\ extensions.packetListSplit = SplitFactor(extensions.gcThreadCount)
    /\ extensions.packetListSplit >= 3
    /\ extensions.cacheListSplitForced
    /\ extensions.cacheListSplit = ForcedSplit

\* No call of the log asks for the CPU count or the delegate's maximum.
NoThreadCountQuery(l) ==
    \A i \in 1..Len(l) :
        l[i].ev \notin {"omrsysinfo_get_number_CPUs_by_type",
                        "MM_ConfigurationDelegate::getMaxGCThreadCount"}

\* The split factors initializeGCParameters derives from the thread count in
\* this build: the free-list split only where a scavenger is enabled.
DerivedFromThreadCount ==
    {"packetListSplit"}
        \cup (IF ScavengerBuild THEN {"cacheListSplit"} ELSE {})
        \cup (IF ScavengerBuild /\ extensions.scavengerEnabled
              THEN {"splitFreeListSplitAmount"} ELSE {})

\* C17 as stated: with a user-specified thread count, initializeGCThreadCount
\* queries neither the CPU count nor the delegate's maximum and leaves
\* gcThreadCount unchanged, and initializeGCParameters derives every unforced
\* split factor (the scan-cache one in a scavenger build) from the specified
\* count.
C17_AllSplitsFromSpecifiedCount ==
    [][ (extensions.gcThreadCountSpecified /\ TunedBy(op', log', aborted')) =>
          /\ NoThreadCountQuery(log')
          /\ extensions'.gcThreadCount = extensions.gcThreadCount
          /\ \A f \in SplitFields \ (IF ScavengerBuild THEN {} ELSE {"cacheListSplit"}) :
                ~ extensions[ForcedFlag(f)] =>
                    extensions'[f] =
                        Larger(extensions[f], SplitFactor(extensions.gcThreadCount))
      ]_vars

\* C17 (amended): with a user-specified thread count, initializeGCThreadCount
\* queries neither the CPU count nor the delegate's maximum and (in a build
\* without the checkpoint hook) leaves gcThreadCount unchanged;
\* initializeGCParameters derives from the resulting count the unforced
\* work-packet split, the unforced scan-cache split in a scavenger build, and
\* the unforced free-list split where a scavenger is enabled; elsewhere the
\* unforced free-list split derives from the CPU count.
C17_SpecifiedCountKept ==
    [][ (extensions.gcThreadCountSpecified /\ TunedBy(op', log', aborted')) =>
          /\ NoThreadCountQuery(log')
          /\ ~ build.J9VM_OPT_CRIU_SUPPORT =>
                extensions'.gcThreadCount = extensions.gcThreadCount
          /\ \A f \in DerivedFromThreadCount :
                ~ extensions[ForcedFlag(f)] =>
                    extensions'[f] =
                        Larger(extensions[f], SplitFactor(extensions'.gcThreadCount))
          /\ ("splitFreeListSplitAmount" \notin DerivedFromThreadCount
                 /\ ~ extensions.splitFreeListAmountForced) =>
                extensions'.splitFreeListSplitAmount =
                    Larger(extensions.splitFreeListSplitAmount,
                           SplitFactor(args'.cpus))
      ]_vars

\* Nine threads specified on a single CPU with a scavenger enabled: the splits
\* follow the nine threads.
C17_Witness ==
    /\ op = "initialize"
    /\ ~ aborted
    /\ extensions.gcThreadCountSpecified
    /\ NoThreadCountQuery(log)
    /\ extensions.gcThreadCount > 8
    /\ args.cpus = 1
    /\ ScavengerBuild /\ extensions.scavengerEnabled
    /\ ~ extensions.splitFreeListAmountForced
    /\ extensions.splitFreeListSplitAmount = SplitFactor(extensions.gcThreadCount)
    /\ extensions.packetListSplit = SplitFactor(extensions.gcThreadCount)


-----------------------------------------------------------------------------
(* The region specification: initialize for every region-size request and   *)
(* every build default, with the viability check passing or failing.        *)

RegionOptions ==
    { [DefaultOptions EXCEPT !.regionSize = r] : r \in 0 .. UDATA_MAX }

RegionConfigs ==
    { [DefaultConfig EXCEPT !._defaultRegionSize = d] : d \in 1 .. UDATA_MAX }

RegionInputs ==
    { [InitializeOK EXCEPT !.verifyRegionSize = v] : v \in BOOLEAN }

InitRegion ==
    \E o \in RegionOptions, cfg \in RegionConfigs : InitWith(o, DefaultBuild, cfg)

NextRegion == \E in \in RegionInputs : initialize(in)

SpecRegion == InitRegion /\ [][NextRegion]_vars

\* The size initializeRegionSize works from: the request, or the build
\* default when the request is 0.
RequestedRegionSize ==
    IF extensions.regionSize = 0 THEN config._defaultRegionSize
    ELSE extensions.regionSize

\* The powers of two, from the platform floor up, that can hold `size`.
PowersHolding(size) ==
    { 2 ^ s : s \in { t \in MinShift .. MaxShift : size <= 2 ^ t } }

\* C16: initializeRegionSize works from the build default when the request is
\* 0; when it succeeds the region size stored is the smallest power of two,
\* not below the platform floor, that holds the request; when no power of two
\* holds it (shift 0) or the viability check fails, initialize fails.
C16_RegionSizePowerOfTwo ==
    [][ op' = "initialize" =>
          LET holding == PowersHolding(RequestedRegionSize)
              succeeded == log'[1].ev = "initializeRegionSize" /\ log'[1].ok
          IN  /\ succeeded <=> (holding # {} /\ args'.verifyRegionSize)
              /\ ~ succeeded => ret' = FALSE /\ Len(log') = 1
              /\ holding # {} =>
                    /\ extensions'.regionSize \in holding
                    /\ \A p \in holding : extensions'.regionSize <= p
              /\ holding = {} => extensions'.regionSize = extensions.regionSize
      ]_vars

\* A request, not the default, was resolved to the widest power of two.
C16_Witness ==
    /\ op = "initialize"
    /\ ret = TRUE
    /\ log[1].ev = "initializeRegionSize" /\ log[1].ok
    /\ extensions.regionSize = 2 ^ MaxShift
    /\ config._defaultRegionSize = UDATA_MAX


-----------------------------------------------------------------------------
(* Further properties of prepareParameters, under the sizing specification. *)

\* The heap's capacity rounded down to the alignment.
CapacityFloor ==
    (args.maximumMemorySize \div extensions.heapAlignment) * extensions.heapAlignment

\* The requests rounded up: new-space ones to twice the alignment, the others
\* to the alignment.
RoundedNew(request) == RoundedUp(2 * extensions.heapAlignment, request)
RoundedOld(request) == RoundedUp(extensions.heapAlignment, request)

\* The six generation bounds of the parameters.
GenerationBounds ==
    {"_minimumNewSpaceSize", "_initialNewSpaceSize", "_maximumNewSpaceSize",
     "_minimumOldSpaceSize", "_initialOldSpaceSize", "_maximumOldSpaceSize"}

\* C18 as stated: the resolved maximumSpaceSize is the capacity rounded down
\* to the alignment, clamped to the requested overall maximum, and every
\* generation bound written is at most it.
C18_MaximumClampedToRequest ==
    op = "prepareParameters" =>
        /\ parameters._maximumSpaceSize
              = Smaller(CapacityFloor, RoundedOld(args.memoryMax))
        /\ \A f \in GenerationBounds : parameters[f] <= parameters._maximumSpaceSize

\* C18 (amended): the resolved maximumSpaceSize is the capacity rounded down
\* to the alignment, clamped to the larger of the requested overall maximum
\* (rounded up) and the sum of the rounded maximum new-space and old-space
\* requests; every generation bound written is at most it.
C18_MaximumClampedToRaisedRequest ==
    op = "prepareParameters" =>
        LET sum == (RoundedNew(args.maximumNewSpaceSize)
                       + RoundedOld(args.maximumTenureSpaceSize)) % (UDATA_MAX + 1)
        IN  /\ RoundedOld(args.memoryMax) <= UDATA_MAX =>
                  parameters._maximumSpaceSize
                      = Smaller(CapacityFloor, Larger(RoundedOld(args.memoryMax), sum))
            /\ \A f \in GenerationBounds :
                  parameters[f] <= parameters._maximumSpaceSize

\* The requested overall maximum, above the generations' sum, clamps a larger heap.
C18_Witness ==
    /\ op = "prepareParameters"
    /\ Representable
    /\ args.memoryMax > args.maximumNewSpaceSize + args.maximumTenureSpaceSize + 1
    /\ args.maximumNewSpaceSize > 0
    /\ parameters._maximumSpaceSize = RoundedOld(args.memoryMax)
    /\ parameters._maximumSpaceSize < CapacityFloor
    /\ CapacityFloor < args.maximumMemorySize

\* C19 as stated: the new-space sizes written are the requests rounded up to
\* the next multiple of twice the alignment, the old-space sizes the requests
\* rounded up to the next multiple of the alignment.
C19_SizesAreRoundedRequests ==
    op = "prepareParameters" =>
        /\ parameters._minimumNewSpaceSize = RoundedNew(args.minimumNewSpaceSize)
        /\ parameters._initialNewSpaceSize = RoundedNew(args.initialNewSpaceSize)
        /\ parameters._maximumNewSpaceSize = RoundedNew(args.maximumNewSpaceSize)
        /\ parameters._minimumOldSpaceSize = RoundedOld(args.minimumTenureSpaceSize)
        /\ parameters._initialOldSpaceSize = RoundedOld(args.initialTenureSpaceSize)
        /\ parameters._maximumOldSpaceSize = RoundedOld(args.maximumTenureSpaceSize)

\* C19 (amended): when the rounded requests are representable, each new-space
\* size written is the request rounded up to the next multiple of twice the
\* alignment, or maximumSpaceSize if that is smaller; the minimum and initial
\* old-space sizes are the request rounded up to the next multiple of the
\* alignment, or what maximumSpaceSize leaves beside the new-space size
\* written if that is smaller; the maximum old-space size is the rounded
\* request or maximumSpaceSize if that is smaller.
C19_SizesAreRoundedThenClamped ==
    (op = "prepareParameters" /\ Representable) =>
        LET p == parameters
            top == p._maximumSpaceSize
        IN  /\ p._minimumNewSpaceSize = Smaller(top, RoundedNew(args.minimumNewSpaceSize))
            /\ p._initialNewSpaceSize = Smaller(top, RoundedNew(args.initialNewSpaceSize))
            /\ p._maximumNewSpaceSize = Smaller(top, RoundedNew(args.maximumNewSpaceSize))
            /\ p._minimumOldSpaceSize
                  = Smaller(top - p._minimumNewSpaceSize,
                            RoundedOld(args.minimumTenureSpaceSize))
            /\ p._initialOldSpaceSize
                  = Smaller(top - p._initialNewSpaceSize,
                            RoundedOld(args.initialTenureSpaceSize))
            /\ p._maximumOldSpaceSize = Smaller(top, RoundedOld(args.maximumTenureSpaceSize))

\* A minimum new-space request of three alignments is written as four.
C19_Witness ==
    /\ op = "prepareParameters"
    /\ Representable
    /\ args.minimumNewSpaceSize = 3 * extensions.heapAlignment
    /\ parameters._minimumNewSpaceSize = 4 * extensions.heapAlignment


-----------------------------------------------------------------------------
(* Forced and impossible shifts, under the shift specification.             *)

\* The step is a createHeap whose shift computation ran with compressed
\* references.
ShiftComputedBy(nextOp, nextLog, nextArgs) ==
    /\ nextOp = "createHeap"
    /\ build.OMR_GC_COMPRESSED_POINTERS
    /\ nextArgs.compressObjectReferences
    /\ \E i \in 1..Len(nextLog) :
          nextLog[i].ev = "initializeRunTimeObjectAlignmentAndCRShift"

\* The shift the computation starts from: the forced amount, or the default.
StartingShift(in) ==
    IF in.shouldForceSpecifiedShiftingCompression
    THEN in.forcedShiftingCompressionAmount
    ELSE IF in.shouldAllowShiftingCompression
         THEN LOW_MEMORY_HEAP_CEILING_SHIFT ELSE 0

\* C20: when a shift is forced and the heap top fits under it, the published
\* shift is the forced amount exactly; when the heap top does not fit under
\* the starting (default or forced) shift, no shift is published and the
\* computation fails.
C20_ForcedShiftExactImpossibleFails ==
    [][ ShiftComputedBy(op', log', args') =>
          LET fits == Addressable(args'.heapTop, StartingShift(args'))
              succeeded ==
                  /\ ~ aborted'
                  /\ \E i \in 1..Len(log') :
                        /\ log'[i].ev = "initializeRunTimeObjectAlignmentAndCRShift"
                        /\ log'[i].ok
          IN  /\ succeeded <=> fits
              /\ (fits /\ args'.shouldForceSpecifiedShiftingCompression) =>
                    omrVM'._compressedPointersShift
                        = args'.forcedShiftingCompressionAmount
              /\ ~ fits =>
                    /\ omrVM'._compressedPointersShift = omrVM._compressedPointersShift
                    /\ ret' = NULL
      ]_vars

\* A forced shift below the default floor, with the force-low policy set, on
\* a platform that raises unforced shifts: the forced amount is published.
C20_Witness ==
    /\ ShiftPublished
    /\ args.shouldForceSpecifiedShiftingCompression
    /\ args.shouldForceLowMemoryHeapCeilingShiftIfPossible
    /\ ~ build.S390
    /\ args.forcedShiftingCompressionAmount > 0
    /\ args.forcedShiftingCompressionAmount < DEFAULT_LOW_MEMORY_HEAP_CEILING_SHIFT
    /\ omrVM._compressedPointersShift = args.forcedShiftingCompressionAmount
    /\ args.heapTop > maxAddressValue


-----------------------------------------------------------------------------
(* The free-list split, under the split specification.                      *)

\* A scavenger is compiled in and enabled.
ScavengerActive == ScavengerBuild /\ extensions.scavengerEnabled

-----------------------------------------------------------------------------
(* The frame of the restore, under the restore specification.               *)

\* The handles of the Extensions the restore is to leave alone.
RestoreKeptHandles ==
    {"heap", "heapRegionManager", "memoryManager", "globalCollector",
     "dispatcher", "_lightweightNonReentrantLockPool"}

\* The fields of the Extensions the restore tunes.
RestoreTunedFields ==
    {"gcThreadCount"} \cup SplitFields
        \cup {"scavengerScanOrdering", "adaptiveGcCountBetweenHotFieldSort"}

\* The calls a restore makes: queries, the tuning steps and the restore hooks
\* of the delegate and of the threads.
RestoreCalls ==
    {"initializeGCThreadCount", "omrsysinfo_get_number_CPUs_by_type",
     "MM_ConfigurationDelegate::getMaxGCThreadCount",
     "MM_ConfigurationDelegate::checkPointGCThreadCountVerifyAndAdjust",
     "MM_ParallelDispatcher::threadCountMaximum", "initializeGCParameters",
     "MM_ConfigurationDelegate::reinitializeForRestore",
     "MM_EnvironmentBase::reinitializeForRestore"}

\* C22: reinitializeForRestore, whether it succeeds or fails, leaves the heap,
\* region manager, memory manager, global collector, dispatcher and lock-pool
\* handles of the Extensions unchanged and calls no kill and no construction
\* on them; of the Extensions it changes only the thread count, the split
\* factors and the scan-ordering flags, and besides them only the restore
\* state of the threads it visits.
C22_RestoreFrame ==
    [][ op' = "reinitializeForRestore" =>
          /\ \A f \in RestoreKeptHandles : extensions'[f] = extensions[f]
          /\ \A f \in (DOMAIN extensions) \ RestoreTunedFields :
                extensions'[f] = extensions[f]
          /\ DOMAIN extensions' = DOMAIN extensions
          /\ UNCHANGED << defaultMemorySpace, heapKills, nextHeap, envKills, envs,
                          nextEnv, omrVM, numaCached, delegateUp, parameters >>
          /\ \A i \in 1..Len(log') : log'[i].ev \in RestoreCalls
      ]_vars

\* A restore that failed at the delegate after it raised the thread count
\* and the split factors, in a runtime whose heap, dispatcher and lock pool
\* exist.
C22_Witness ==
    /\ op = "reinitializeForRestore"
    /\ ~ aborted
    /\ ret = FALSE
    /\ ~ args.delegateReinitializeForRestore
    /\ extensions.heap # NULL
    /\ extensions.memoryManager # NULL
    /\ extensions.dispatcher # NULL
    /\ extensions._lightweightNonReentrantLockPool # NULL
    /\ extensions.gcThreadCount = MaxDispatcherThreads
    /\ extensions.packetListSplit = SplitFactor(MaxDispatcherThreads)
    /\ extensions.packetListSplit > 1

=============================================================================
